---- MODULE Spec2Model ----
(***************************************************************************)
(* A model of the supervisor/worker feedback loop (FeedbackLoop,           *)
(* SupervisorEvaluation, FeedbackManager, RequirementComparator) and of    *)
(* the generic workflow engine (WorkflowOrchestrator, CircuitBreaker).     *)
(*                                                                         *)
(* The subsystems share no state.      Each has its own specification:     *)
(*   Spec     one FeedbackLoop.run() on a fresh instance, closed system    *)
(*   SpecEnv  the same with another process removing feedback.json         *)
(*   SpecOrch a WorkflowOrchestrator instance over several invocations     *)
(*   SpecFile concurrent FileWriter calls on one path, and a reader        *)
(***************************************************************************)
EXTENDS Integers, Sequences, FiniteSets, TLC

\* ------------------------------------------------------------------ bounds
\* max_attempts of the loop is drawn from 0..MaxAttempts
MaxAttempts == 3

\* ------------------------------------------------------- pod directory files
FileNames == {"instructions.json", "result.json", "feedback.json", "other.json"}

\* A missing file.
Absent == [k |-> "absent"]
\* A file that exists but does not hold a JSON document (empty, truncated,
\* or invalid text such as "{ invalid json }").
Partial == [k |-> "partial"]

\* The instruction text used in the runs.  It contains neither "json" nor
\* ":" nor ")" and is one line, so _determine_gaps reaches the
\* requirement branch (requirement_comparator.py 96-118).
InstrText == "Return the number 42"

InstrDoc(p) == [k |-> "doc", instructions |-> InstrText, output_path |-> p]
\* instructions without the output_path key
InstrNoPath == [k |-> "doc", instructions |-> InstrText]
ResultDoc(r) == [k |-> "doc", result |-> r]
PassDoc(r, n) == [k |-> "doc", status |-> "PASS", result |-> r, attempts |-> n]
FailDoc(g, n) == [k |-> "doc", status |-> "FAIL", gaps |-> g, attempt |-> n]

\* json.loads succeeds on the content
IsJson(c) == c.k = "doc"
\* dict.get(key, default)
Get(c, key, default) == IF key \in DOMAIN c THEN c[key] ELSE default

\* Encodings of JSON values that are not strings: Python None and a number.
NoneResult == "<None>"
NumberResult == "<42>"
\* A worker return value json.dumps cannot serialize (a MagicMock).
NonSerializable == [k |-> "nonserializable"]

\* What the worker's LLM call may answer.
Results == {"PASS", "WRONG", "", NumberResult}
WorkerValues == {ResultDoc(r) : r \in Results} \cup {NonSerializable}
\* What the worker's call may raise: the builtin TimeoutError, the LLM
\* client's own TimeoutError and RateLimitError, a TypeError.
WorkerErrors == {"TimeoutError", "LLMTimeoutError", "RateLimitError", "TypeError"}

VARIABLES files, max_attempts, current_attempt, loop_status, iteration_count,
          history, sup_attempt, evaluation_history, pc, pending, ret, exc, log,
          files0

loopVars == <<files, max_attempts, current_attempt, loop_status, iteration_count,
              history, sup_attempt, evaluation_history, pc, pending, ret, exc, log,
              files0>>

\* The WorkflowOrchestrator instance (workflow_orchestrator.py 35-47), its
\* CircuitBreaker (13-19), the locals of execute_with_retry (51-67), and the
\* part of the disk the steps touch.  slept is the time slept in the
\* invocation, taken the number of steps taken in all invocations, completed
\* the steps that have succeeded on the instance.
VARIABLES max_retries, max_failures, failure_count, is_open, created_files,
          created_dirs, step_execution_counts, checkpoint_state, disk_files,
          disk_dirs, opc, invocations, i, step, step_key, attempts, success,
          steps_executed, failures, session_dir, step_attempts, slept, taken,
          completed, oexc

orchVars == <<max_retries, max_failures, failure_count, is_open, created_files,
              created_dirs, step_execution_counts, checkpoint_state, disk_files,
              disk_dirs, opc, invocations, i, step, step_key, attempts, success,
              steps_executed, failures, session_dir, step_attempts, slept, taken,
              completed, oexc>>

\* One path written by concurrent FileWriter calls (file_writer.py): the file
\* at the path, the temporary files beside it, the holder of the flock on
\* it, and per writer its call, its position in it and the text its file
\* object has buffered; rename_fails tells whether the os.rename of a call
\* will raise (the file system refuses it); observed is what the reader
\* last saw.
VARIABLES path_file, temp_files, lock_holder, wpc, method, serializable, buffer,
          rename_fails, observed

fileVars == <<path_file, temp_files, lock_holder, wpc, method, serializable, buffer,
              rename_fails, observed>>

\* FeedbackManager on one pod directory: feedback.json, the document of the
\* last write_pass / write_fail call, the exception it raised ("none" when it
\* returned) and the number of calls made
VARIABLES feedback_json, fm_data, fm_exc, fm_calls

fmVars == <<feedback_json, fm_data, fm_exc, fm_calls>>

\* One call of RequirementComparator.evaluate: its two arguments and what it
\* gave ([exc, status, gaps], or NoOut before the call)
VARIABLES cmp_instructions, cmp_result, cmp_out

cmpVars == <<cmp_instructions, cmp_result, cmp_out>>

\* PathResolver under one session directory and one pod directory: the
\* clock, the directories that exist, the exception of the last call ("none"
\* when it returned) and the paths the calls have returned
VARIABLES clock, dirs, pr_exc, returned

prVars == <<clock, dirs, pr_exc, returned>>

\* WorkerExecution on one working directory: its three files, the fields
\* of the instance, the exception of the last run() ("none" when it
\* returned), and the numbers of run() calls, of LLM calls, of result
\* writes made by run() and of calls of the other public methods
VARIABLES work_instructions, work_feedback, work_result, worker_max_retries,
          execution_status, execution_history, work_exc, runs, llm_calls,
          result_writes, caller_calls

weVars == <<work_instructions, work_feedback, work_result, worker_max_retries,
            execution_status, execution_history, work_exc, runs, llm_calls,
            result_writes, caller_calls>>

\* PodMessageQueue: the queue of each pod that was sent to, and, to state
\* what the callers see, the messages sent to and returned for each pod, the
\* value of the last receive and the number of calls made
VARIABLES queues, sent, received, mq_ret, mq_calls

mqVars == <<queues, sent, received, mq_ret, mq_calls>>

\* WorkflowDependencyGraph: _dependencies, _statuses,
\* _cancelled_due_to_dependency, the workflows mark_failed was called for
\* since they were last added, the number of calls made and the last call
VARIABLES dependencies, statuses, cancelled_due_to_dependency, marked, dg_calls,
          dg_last

dgVars == <<dependencies, statuses, cancelled_due_to_dependency, marked, dg_calls,
            dg_last>>

\* One LLMClient.call_with_retry call: its retries argument, its attempt
\* counter, where it is, the exception it raised, the text it returned, and
\* the calls of the API it made, how many of them were rate-limited and the
\* delays it slept
VARIABLES retries, llm_attempt, llm_pc, llm_exc, llm_ret, api_calls, rate_limited,
          sleeps

llmVars == <<retries, llm_attempt, llm_pc, llm_exc, llm_ret, api_calls, rate_limited,
             sleeps>>

compVars == <<fmVars, cmpVars, prVars, weVars, mqVars, dgVars, llmVars>>

vars == <<loopVars, orchVars, fileVars, compVars>>

notLoopVars == <<orchVars, fileVars, compVars>>
notOrchVars == <<loopVars, fileVars, compVars>>
notFileVars == <<loopVars, orchVars, compVars>>
notFmVars == <<loopVars, orchVars, fileVars, cmpVars, prVars, weVars, mqVars, dgVars, llmVars>>
notCmpVars == <<loopVars, orchVars, fileVars, fmVars, prVars, weVars, mqVars, dgVars, llmVars>>
notPrVars == <<loopVars, orchVars, fileVars, fmVars, cmpVars, weVars, mqVars, dgVars, llmVars>>
notWeVars == <<loopVars, orchVars, fileVars, fmVars, cmpVars, prVars, mqVars, dgVars, llmVars>>
notMqVars == <<loopVars, orchVars, fileVars, fmVars, cmpVars, prVars, weVars, dgVars, llmVars>>
notDgVars == <<loopVars, orchVars, fileVars, fmVars, cmpVars, prVars, weVars, mqVars, llmVars>>
notLlmVars == <<loopVars, orchVars, fileVars, fmVars, cmpVars, prVars, weVars, mqVars, dgVars>>

NoRet == [status |-> "none", reason |-> "", attempts |-> 0, result |-> ""]
Ev(e, n, s) == [e |-> e, k |-> n, s |-> s]

\* --------------------------------------------------------------- evaluation
\* The instruction texts and the result values the comparator is applied to.
\* The string operations of the code are tabulated over these texts.
JsonText == "Return JSON with the answer"
FieldsText == "Fields: name, age"
NumberedText == "Give 1) answer, 2) explanation"
InstrTexts == {"", InstrText, JsonText, FieldsText, NumberedText}
StringResults == {"PASS", "pass", "PASS ", " PASS", "", "   ", "WRONG", "42",
                  "name", "name age"}
ResultValues == StringResults \cup {NoneResult, NumberResult}

\* a comparison that ignores case
is_pass_ignoring_case(result) == result \in {"PASS", "pass"}

\* GapExtractor.is_pass
is_pass(result) == result = "PASS"

\* str.strip()
Strip(text) ==
    IF text = "   " THEN ""
    ELSE IF text \in {"PASS ", " PASS"} THEN "PASS"
    ELSE text

\* "json" in instructions.lower()
MentionsJson(instructions) == instructions = JsonText

\* ":" in instructions.lower() or ")" in instructions
Enumerates(instructions) == instructions \in {FieldsText, NumberedText}

\* _is_valid_json_format: json.loads(text) succeeds
is_valid_json_format(text) == text = "42"

\* the items the two patterns of _find_missing_items find in the instructions
NamedItems(instructions) ==
    IF instructions = FieldsText THEN <<"name", "age">>
    ELSE IF instructions = NumberedText THEN <<"answer", "explanation">>
    ELSE <<>>

\* item in result.lower()
Contains(result, item) ==
    \/ item = "name" /\ result \in {"name", "name age"}
    \/ item = "age" /\ result = "name age"

find_missing_items(instructions, result) ==
    SelectSeq(NamedItems(instructions), LAMBDA item : ~Contains(result, item))

\* ", ".join(items)
RECURSIVE Join(_)
Join(items) ==
    IF Len(items) = 0 THEN ""
    ELSE IF Len(items) = 1 THEN items[1]
    ELSE items[1] \o ", " \o Join(Tail(items))

\* the malformed-JSON rule tried before the whitespace rule
determine_gaps_json_first(instructions, result) ==
    IF result = NoneResult \/ result = ""
    THEN [exc |-> "none", gaps |-> <<"No result provided">>]
    ELSE IF result = NumberResult
    THEN [exc |-> "AttributeError", gaps |-> <<>>]
    ELSE IF MentionsJson(instructions) /\ ~is_valid_json_format(result)
    THEN [exc |-> "none", gaps |-> <<"Malformed result: " \o result>>]
    ELSE IF Strip(result) = ""
    THEN [exc |-> "none", gaps |-> <<"No result provided">>]
    ELSE [exc |-> "none", gaps |-> <<"Incorrect result: " \o result>>]

\* RequirementComparator._determine_gaps: [exc, gaps].  A non-string result
\* has no strip().  For instructions of one line, lines 96-118 give the
\* single gap "Incorrect result: <result>" whether or not a requirement is
\* found missing.
determine_gaps(instructions, result) ==
    IF result = NoneResult \/ result = ""
    THEN [exc |-> "none", gaps |-> <<"No result provided">>]
    ELSE IF result = NumberResult
    THEN [exc |-> "AttributeError", gaps |-> <<>>]
    ELSE IF Strip(result) = ""
    THEN [exc |-> "none", gaps |-> <<"No result provided">>]
    ELSE IF MentionsJson(instructions) /\ ~is_valid_json_format(result)
    THEN [exc |-> "none", gaps |-> <<"Malformed result: " \o result>>]
    ELSE IF Enumerates(instructions) /\ find_missing_items(instructions, result) # <<>>
    THEN [exc |-> "none",
          gaps |-> <<"Incomplete result: missing "
                        \o Join(find_missing_items(instructions, result))>>]
    ELSE [exc |-> "none", gaps |-> <<"Incorrect result: " \o result>>]

\* RequirementComparator.evaluate: [exc, status, gaps]; an exception of
\* _determine_gaps leaves evaluate and no status is returned
evaluate(instructions, result) ==
    IF is_pass(result)
    THEN [exc |-> "none", status |-> "PASS", gaps |-> <<>>]
    ELSE LET g == determine_gaps(instructions, result)
         IN [exc |-> g.exc,
             status |-> IF g.exc = "none" THEN "FAIL" ELSE "none",
             gaps |-> g.gaps]

\* The JSON type of a value, read off the first character of its text: a
\* string is written in quotes, an integer begins with a digit or a sign,
\* an array with "<".
FirstChar(v) == SubSeq(ToString(v), 1, 1)
\* {"type": "integer"}
IsInteger(v) == FirstChar(v) \in {"0", "1", "2", "3", "4", "5", "6", "7", "8", "9", "-"}
\* {"type": "string"}
IsString(v) == FirstChar(v) = "\""
\* {"type": "array", "items": {"type": "string"}}
IsStringArray(v) == FirstChar(v) = "<" /\ \A n \in 1..Len(v) : IsString(v[n])

\* FEEDBACK_PASS_SCHEMA (lines 33-41)
ValidPass(data) ==
    /\ {"result", "attempts"} \subseteq DOMAIN data
    /\ IsInteger(data.attempts)

\* a FAIL schema without minItems
ValidFailAnyGaps(data) ==
    /\ {"gaps", "attempt"} \subseteq DOMAIN data
    /\ IsStringArray(data.gaps)
    /\ IsInteger(data.attempt)

\* FEEDBACK_FAIL_SCHEMA (lines 43-55)
ValidFail(data) ==
    /\ {"gaps", "attempt"} \subseteq DOMAIN data
    /\ IsStringArray(data.gaps)
    /\ Len(data.gaps) >= 1
    /\ IsInteger(data.attempt)

\* validate_feedback with a FAIL schema without minItems
validate_feedback_any_gaps(data) ==
    IF Get(data, "status", "") = "PASS" THEN ValidPass(data)
    ELSE IF Get(data, "status", "") = "FAIL" THEN ValidFailAnyGaps(data)
    ELSE FALSE

\* JSONValidator.validate_feedback: the schema is chosen by the status
validate_feedback(data) ==
    IF Get(data, "status", "") = "PASS" THEN ValidPass(data)
    ELSE IF Get(data, "status", "") = "FAIL" THEN ValidFail(data)
    ELSE FALSE

\* ------------------------------------------------------------- FeedbackLoop
Exists(f) == files[f] # Absent

NoPending == [doc |-> Absent, path |-> ""]
TimeoutDetail == "Worker timeout"

\* run(): the except clause names the builtin TimeoutError only
IsCaught(e) == e = "TimeoutError"

\* An exception e leaves _run_loop while current_attempt is att: run()
\* turns a caught one into a result and lets any other reach the caller.
Throw(e, att) ==
    IF IsCaught(e)
    THEN /\ pc' = "returned"
         /\ exc' = "none"
         /\ ret' = [status |-> "FAIL", reason |-> "timeout: " \o TimeoutDetail,
                    attempts |-> att, result |-> ""]
    ELSE /\ pc' = "raised"
         /\ exc' = e
         /\ ret' = NoRet

\* mutant: the loop test off by one
LoopContinuesOffByOne(att, max) == att <= max

\* the while condition of _run_loop
LoopContinues(att, max) == att < max

\* mutant: the retry does not look at the feedback
IsFailFeedbackAlways(c) == TRUE

\* _execute_worker_with_feedback: the feedback that lets the worker retry
IsFailFeedback(c) == IsJson(c) /\ Get(c, "status", "") = "FAIL"

\* the except (TypeError, AttributeError) around execute_with_feedback
FallsBack(e) == e \in {"TypeError", "AttributeError"}

\* _read_gaps on directory content fs
read_gaps(fs) ==
    IF IsFailFeedback(fs["feedback.json"])
    THEN Get(fs["feedback.json"], "gaps", <<>>)
    ELSE <<>>

\* _read_result on directory content fs
read_result(fs) ==
    IF fs["result.json"] = Absent THEN "" ELSE Get(fs["result.json"], "result", "")

\* the caller invokes run() on the fresh instance
Run ==
    /\ UNCHANGED notLoopVars
    /\ pc = "idle"
    /\ pc' = "loop"
    /\ UNCHANGED <<files, max_attempts, current_attempt, loop_status, iteration_count,
                   history, sup_attempt, evaluation_history, pending, ret, exc, log, files0>>

\* _run_loop: the loop test, the iteration counter, the exit after the loop
LoopTest ==
    /\ UNCHANGED notLoopVars
    /\ pc = "loop"
    /\ IF LoopContinues(current_attempt, max_attempts)
       THEN /\ iteration_count' = iteration_count + 1
            /\ pc' = "iteration"
            /\ UNCHANGED <<loop_status, ret>>
       ELSE /\ loop_status' = "FAILED"
            /\ ret' = [status |-> "FAIL", reason |-> "MAX_ATTEMPTS_EXCEEDED",
                       attempts |-> current_attempt, result |-> ""]
            /\ pc' = "returned"
            /\ UNCHANGED iteration_count
    /\ UNCHANGED <<files, max_attempts, current_attempt, history, sup_attempt,
                   evaluation_history, pending, exc, log, files0>>

\* mutant: only a missing file is detected
InstructionsErrorMissingOnly(c) == IF c = Absent THEN "FileNotFoundError" ELSE "none"

\* _run_single_iteration lines 209-216: what the check of instructions.json
\* with content c raises
InstructionsError(c) ==
    IF c = Absent THEN "FileNotFoundError"
    ELSE IF ~IsJson(c) THEN "JSONDecodeError"
    ELSE "none"

\* _run_single_iteration up to the choice of the worker path
RunSingleIteration ==
    /\ UNCHANGED notLoopVars
    /\ pc = "iteration"
    /\ current_attempt' = current_attempt + 1
    /\ IF InstructionsError(files["instructions.json"]) # "none"
       THEN Throw(InstructionsError(files["instructions.json"]), current_attempt + 1)
       ELSE /\ pc' = IF current_attempt + 1 = 1 THEN "execute" ELSE "retry"
            /\ UNCHANGED <<ret, exc>>
    /\ UNCHANGED <<files, max_attempts, loop_status, iteration_count, history,
                   sup_attempt, evaluation_history, pending, log, files0>>

\* _read_feedback, line 187, called by _execute_worker_with_feedback:
\* feedback_file.exists(); without the file the feedback is None, which
\* the test of line 145 takes as no FAIL feedback: the worker is not called
FeedbackExists ==
    /\ UNCHANGED notLoopVars
    /\ pc = "retry"
    /\ IF Exists("feedback.json")
       THEN /\ pc' = "read_feedback"
            /\ UNCHANGED log
       ELSE IF IsFailFeedback(Absent)
       THEN /\ pc' = "execute_with_feedback"
            /\ UNCHANGED log
       ELSE /\ pc' = "evaluate"
            /\ log' = Append(log, Ev("skip", current_attempt, ""))
    /\ UNCHANGED <<files, max_attempts, current_attempt, loop_status, iteration_count,
                   history, sup_attempt, evaluation_history, pending, ret, exc, files0>>

\* _read_feedback, line 189, and _execute_worker_with_feedback: read
\* feedback.json and decide
ReadFeedback ==
    /\ UNCHANGED notLoopVars
    /\ pc = "read_feedback"
    /\ IF ~Exists("feedback.json")
       THEN /\ Throw("FileNotFoundError", current_attempt)
            /\ UNCHANGED log
       ELSE IF ~IsJson(files["feedback.json"])
       THEN /\ Throw("JSONDecodeError", current_attempt)
            /\ UNCHANGED log
       ELSE IF IsFailFeedback(files["feedback.json"])
       THEN /\ pc' = "execute_with_feedback"
            /\ UNCHANGED <<ret, exc, log>>
       ELSE /\ pc' = "evaluate"
            /\ log' = Append(log, Ev("skip", current_attempt, ""))
            /\ UNCHANGED <<ret, exc>>
    /\ UNCHANGED <<files, max_attempts, current_attempt, loop_status, iteration_count,
                   history, sup_attempt, evaluation_history, pending, files0>>

\* The log after a worker call of kind how ("plain" or "feedback")
ExecLog(how, evs) == log \o <<Ev("exec", current_attempt, how)>> \o evs

\* A worker call of kind how raised e.  Only execute_with_feedback sits in
\* a try: a TypeError or AttributeError there leads to worker.execute.
WorkerRaises(how, e) ==
    /\ log' = ExecLog(how, <<Ev("raise", current_attempt, e)>>)
    /\ IF how = "feedback" /\ FallsBack(e)
       THEN pc' = "execute" /\ UNCHANGED <<ret, exc>>
       ELSE Throw(e, current_attempt)
    /\ UNCHANGED pending

\* mutant: the result of the worker is not written
ReturnedNoWrite(how, v) ==
    /\ log' = ExecLog(how, <<>>)
    /\ pc' = "evaluate"
    /\ UNCHANGED <<pending, ret, exc>>

\* A worker call of kind how returned v.  execute_with_feedback: json.dumps
\* inside the try (line 153) leads to the fallback call.  After that, for
\* both kinds, instructions_data["output_path"] is read (lines 160, 223)
\* before json.dumps(result) is evaluated for write_text (lines 162, 225).
Returned(how, v) ==
    /\ log' = ExecLog(how, <<>>)
    /\ IF how = "feedback" /\ v = NonSerializable
       THEN /\ pc' = "execute"
            /\ UNCHANGED <<pending, ret, exc>>
       ELSE IF "output_path" \notin DOMAIN files["instructions.json"]
       THEN /\ Throw("KeyError", current_attempt)
            /\ UNCHANGED pending
       ELSE IF v = NonSerializable
       THEN /\ Throw("TypeError", current_attempt)
            /\ UNCHANGED pending
       ELSE /\ pc' = "write_open"
            /\ pending' = [doc |-> v, path |-> files["instructions.json"].output_path]
            /\ UNCHANGED <<ret, exc>>

\* One call of the worker: WorkerExecution.execute reads
\* instructions["instructions"], then the LLM call answers or raises.
WorkerCall(how) ==
    IF "instructions" \notin DOMAIN files["instructions.json"]
    THEN WorkerRaises(how, "KeyError")
    ELSE \/ \E v \in WorkerValues : Returned(how, v)
         \/ \E e \in WorkerErrors : WorkerRaises(how, e)

\* worker.execute(instructions_data): the first attempt, or the fallback of
\* a retry
Execute ==
    /\ UNCHANGED notLoopVars
    /\ pc = "execute"
    /\ WorkerCall("plain")
    /\ UNCHANGED <<files, max_attempts, current_attempt, loop_status, iteration_count,
                   history, sup_attempt, evaluation_history, files0>>

\* worker.execute_with_feedback(instructions_data, feedback) on a retry
ExecuteWithFeedback ==
    /\ UNCHANGED notLoopVars
    /\ pc = "execute_with_feedback"
    /\ WorkerCall("feedback")
    /\ UNCHANGED <<files, max_attempts, current_attempt, loop_status, iteration_count,
                   history, sup_attempt, evaluation_history, files0>>

\* output_path.write_text(...): open() truncates the target
WriteOpen ==
    /\ UNCHANGED notLoopVars
    /\ pc = "write_open"
    /\ files' = [files EXCEPT ![pending.path] = Partial]
    /\ pc' = "write_close"
    /\ UNCHANGED <<max_attempts, current_attempt, loop_status, iteration_count, history,
                   sup_attempt, evaluation_history, pending, ret, exc, log, files0>>

\* output_path.write_text(...): the text is written and the file closed.
\* A file that was removed while it was open stays removed: the text goes
\* to the unlinked file.
WriteClose ==
    /\ UNCHANGED notLoopVars
    /\ pc = "write_close"
    /\ files' = IF files[pending.path] = Absent THEN files
                ELSE [files EXCEPT ![pending.path] = pending.doc]
    /\ pending' = NoPending
    /\ log' = Append(log, Ev("written", current_attempt, Get(pending.doc, "result", "")))
    /\ pc' = "evaluate"
    /\ UNCHANGED <<max_attempts, current_attempt, loop_status, iteration_count, history,
                   sup_attempt, evaluation_history, ret, exc, files0>>

\* `result or ""` in SupervisorEvaluation.evaluate
ResultOrEmpty(result) == IF result \in {NoneResult, ""} THEN "" ELSE result

\* The feedback document SupervisorEvaluation.evaluate hands to
\* FeedbackManager.write_pass / write_fail when its attempt counter is n.
FeedbackFor(ev, result, n) ==
    IF ev.status = "PASS"
    THEN PassDoc(ResultOrEmpty(result), IF n > 0 THEN n ELSE 1)
    ELSE FailDoc(ev.gaps, n + 1)

\* mutant: the loop does not leave on PASS
AfterEvaluateNoExit(st, fs) ==
    /\ history' = Append(history, [attempt |-> current_attempt, status |-> st,
                                   gaps |-> IF st = "FAIL" THEN read_gaps(fs) ELSE <<>>])
    /\ pc' = "loop"
    /\ UNCHANGED <<loop_status, ret, exc>>

\* a history that holds the entry of the latest attempt only
add_to_history_replacing(hist, entry) == <<entry>>

\* _add_to_history: self.history.append(entry)
add_to_history(hist, entry) == Append(hist, entry)

\* _run_loop lines 106-128 after supervisor.evaluate returned status st and
\* left the directory as fs
AfterEvaluate(st, fs) ==
    /\ history' = add_to_history(history,
                      [attempt |-> current_attempt, status |-> st,
                       gaps |-> IF st = "FAIL" THEN read_gaps(fs) ELSE <<>>])
    /\ IF st = "PASS"
       THEN /\ loop_status' = "COMPLETE"
            /\ ret' = [status |-> "PASS", reason |-> "", attempts |-> current_attempt,
                       result |-> read_result(fs)]
            /\ pc' = "returned"
       ELSE /\ pc' = "loop"
            /\ UNCHANGED <<loop_status, ret>>
    /\ UNCHANGED exc

\* a history that keeps the latest entry only
RecordedLatestOnly(hist, entry) == <<entry>>

\* self.evaluation_history.append(history_entry), line 132
Recorded(hist, entry) == Append(hist, entry)

\* supervisor.evaluate(pod_dir, pod_id) raised e: nothing was written
EvaluateRaises(e) ==
    /\ Throw(e, current_attempt)
    /\ log' = Append(log, Ev("raise", current_attempt, e))
    /\ UNCHANGED <<files, history, evaluation_history, loop_status>>

\* _run_loop lines 106-108: SupervisorEvaluation.evaluate (read both files,
\* compare, validate and write feedback.json by temp file and rename, append
\* to the evaluation history)
Evaluate ==
    /\ UNCHANGED notLoopVars
    /\ pc = "evaluate"
    /\ sup_attempt' = current_attempt
    /\ LET ic == files["instructions.json"]
           rc == files["result.json"]
           instructions == Get(ic, "instructions", "")
           result == IF rc = Absent THEN NoneResult ELSE Get(rc, "result", "")
           ev == evaluate(instructions, result)
           doc == FeedbackFor(ev, result, current_attempt)
           fs == [files EXCEPT !["feedback.json"] = doc]
       IN IF ic = Absent THEN EvaluateRaises("FileNotFoundError")
          ELSE IF ~IsJson(ic) THEN EvaluateRaises("ValueError")
          ELSE IF rc # Absent /\ ~IsJson(rc) THEN EvaluateRaises("JSONDecodeError")
          ELSE IF ev.exc # "none" THEN EvaluateRaises(ev.exc)
          ELSE IF ~validate_feedback(doc) THEN EvaluateRaises("ValueError")
          ELSE /\ files' = fs
               /\ evaluation_history' = Recorded(evaluation_history,
                      [status |-> ev.status, result |-> result, gaps |-> ev.gaps])
               /\ log' = Append(log, Ev("feedback", current_attempt, ev.status))
               /\ pc' = "track"
               /\ UNCHANGED <<history, loop_status, ret, exc>>
    /\ UNCHANGED <<max_attempts, current_attempt, iteration_count, pending, files0>>

\* the status supervisor.evaluate returned: that of the entry it appended
EvaluatedStatus == evaluation_history[Len(evaluation_history)].status

\* _run_loop lines 111-115: on FAIL _read_gaps calls _read_feedback, whose
\* feedback_file.exists() (line 187) comes first; on PASS, and on FAIL
\* without the file, the gaps are [] and the entry is added at once
Track ==
    /\ UNCHANGED notLoopVars
    /\ pc = "track"
    /\ IF EvaluatedStatus = "FAIL" /\ Exists("feedback.json")
       THEN /\ pc' = "read_gaps"
            /\ UNCHANGED <<history, loop_status, ret, exc>>
       ELSE AfterEvaluate(EvaluatedStatus, files)
    /\ UNCHANGED <<files, max_attempts, current_attempt, iteration_count, sup_attempt,
                   evaluation_history, pending, log, files0>>

\* _read_feedback line 189 under _read_gaps: read_text of feedback.json,
\* then the history entry and the exit test
ReadGaps ==
    /\ UNCHANGED notLoopVars
    /\ pc = "read_gaps"
    /\ IF ~Exists("feedback.json")
       THEN /\ Throw("FileNotFoundError", current_attempt)
            /\ UNCHANGED <<history, loop_status>>
       ELSE AfterEvaluate("FAIL", files)
    /\ UNCHANGED <<files, max_attempts, current_attempt, iteration_count, sup_attempt,
                   evaluation_history, pending, log, files0>>

\* Another process of the shared file system removes feedback.json while the
\* loop runs.
RemoveFeedback ==
    /\ UNCHANGED notLoopVars
    /\ pc \notin {"idle", "returned", "raised"}
    /\ Exists("feedback.json")
    /\ files' = [files EXCEPT !["feedback.json"] = Absent]
    /\ UNCHANGED <<max_attempts, current_attempt, loop_status, iteration_count, history,
                   sup_attempt, evaluation_history, pc, pending, ret, exc, log, files0>>

\* ======================================================================
\* WorkflowOrchestrator (src/core/workflow_orchestrator.py)
\* ======================================================================
\* max_retries of an orchestrator is drawn from 0..MaxRetries
MaxRetries == 3
\* a workflow has at most MaxSteps steps, and the for loop attempts at most
\* MaxSteps steps, all invocations together
MaxSteps == 2
\* execute_with_retry is invoked at most MaxInvocations times on an instance
MaxInvocations == 2

\* Generic test steps: every action name that starts with "step".
StepActions == {"step1", "step2"}
\* Files a write_file step may name; existing.json is there beforehand.
Paths == {"new.json", "existing.json"}
\* <project_root>/.agent-harness and a session directory in it that some
\* other run created.
HarnessDir == ".agent-harness"
ForeignSession == "session0"
NoSessionDir == "None"

MkStep(a, once, cnt, sf, cp, p) ==
    [action |-> a, should_fail_once |-> once, should_fail_count |-> cnt,
     should_fail |-> sf, checkpoint |-> cp, path |-> p]

\* The step dictionaries a workflow is made of; the checkpointed ones are
\* steps without a test flag.
Steps ==
    {MkStep(a, FALSE, cnt, FALSE, FALSE, "") : a \in StepActions, cnt \in 0..MaxRetries}
    \cup {MkStep(a, FALSE, 0, FALSE, TRUE, "") : a \in StepActions}
    \cup {MkStep(a, fl[1], 0, fl[2], FALSE, "") :
        a \in StepActions, fl \in {<<TRUE, FALSE>>, <<FALSE, TRUE>>}}
    \cup {MkStep("write_file", FALSE, cnt, FALSE, FALSE, p) :
        cnt \in {0, 1, MaxRetries}, p \in Paths}
    \cup {MkStep("write_file", FALSE, 0, FALSE, TRUE, p) : p \in Paths}
    \cup {MkStep("create_session", FALSE, 0, FALSE, FALSE, "")}
    \cup {MkStep("fail_intentionally", FALSE, 0, FALSE, FALSE, "")}

NoStep == MkStep("", FALSE, 0, FALSE, FALSE, "")
EmptyDict == [k \in {} |-> 0]
BreakerOpened == "Circuit breaker opened"

Range(s) == {s[n] : n \in 1..Len(s)}

\* What a step does, whatever its test flags: its action and its path.
StepId(s) == <<s.action, s.path>>

\* action.startswith("step")
IsStepAction(a) == a \in StepActions
\* step_key of the step at 0-based index idx (line 58)
StepKey(idx, a) == IF IsStepAction(a) THEN "step" \o ToString(idx + 1) ELSE a
ExecKey(key) == key \o "_executions"
\* dict.setdefault(key, 0)
SetDefault(d, key) == [k \in DOMAIN d \cup {key} |-> IF k \in DOMAIN d THEN d[k] ELSE 0]
\* d[key] = v
Put(d, key, v) == [k \in DOMAIN d \cup {key} |-> IF k = key THEN v ELSE d[k]]

\* a breaker that is open only at the threshold itself
RecordFailureOpensAtThresholdOnly(open, count, max) == count + 1 = max

\* CircuitBreaker.record_failure: the breaker is open afterwards
RecordFailureOpens(open, count, max) == open \/ count + 1 >= max

\* the while condition of line 68
RetryContinues(att, max, ok) == att < max /\ ~ok

\* step.get("should_fail_count", 0) >= attempts (line 76)
FailsByCountOffByOne(s, att) == s.should_fail_count > att

FailsByCount(s, att) == s.should_fail_count >= att

\* The exception attempt number att of step s raises, "none" if it succeeds
\* (lines 74-78, 117-122).
Failure(s, att) ==
    IF s.should_fail_once /\ att = 1 THEN "Intentional failure for testing"
    ELSE IF FailsByCount(s, att) THEN "Intentional failure " \o ToString(att)
    ELSE IF s.action = "fail_intentionally" THEN "Intentional failure"
    ELSE IF IsStepAction(s.action) /\ s.should_fail THEN "Step failed as configured"
    ELSE "none"

\* time.sleep of line 77, in units of backoff_base
SleepBeforeFailure(s, att) ==
    IF ~(s.should_fail_once /\ att = 1) /\ FailsByCount(s, att) THEN att - 1 ELSE 0

\* the action list of lines 138-145, restricted to the actions of Steps
RollsBack(a) == a \in {"write_file", "create_session", "fail_intentionally"}

\* a rollback that leaves the files alone
RollbackFilesNone(df, cf) == df

\* rollback_on_failure, files: every registered file is unlinked
RollbackFiles(df, cf) ==
    [p \in DOMAIN df |-> IF p \in Range(cf) THEN "absent" ELSE df[p]]

\* shutil.rmtree of one registered directory; every session directory lies
\* in the harness directory
Rmtree(dd, d) ==
    IF d \notin dd THEN dd
    ELSE IF d = HarnessDir THEN {}
    ELSE dd \ {d}

\* rollback_on_failure, directories: reversed(self._created_dirs)
RECURSIVE RollbackDirs(_, _, _)
RollbackDirs(dd, cd, n) ==
    IF n = 0 THEN dd ELSE RollbackDirs(Rmtree(dd, cd[n]), cd, n - 1)

\* the session directory PathResolver.create_session_dir makes: a new name
NewSession(cd) ==
    "session" \o ToString(Cardinality({n \in 1..Len(cd) : cd[n] # HarnessDir}) + 1)

\* lines 93-97: the session is appended, the harness directory goes first
TrackSession(cd, sid) ==
    IF HarnessDir \in Range(cd) THEN Append(cd, sid)
    ELSE <<HarnessDir>> \o Append(cd, sid)

\* execute_with_retry is called (lines 49-54).  i is the number of steps of
\* the workflow the for loop has taken so far.
Invoke ==
    /\ UNCHANGED notOrchVars
    /\ opc \in {"idle", "returned", "raised"}
    /\ invocations < MaxInvocations
    /\ invocations' = invocations + 1
    /\ opc' = "for"
    /\ i' = 0
    /\ step' = NoStep
    /\ step_key' = ""
    /\ attempts' = 0
    /\ success' = FALSE
    /\ steps_executed' = 0
    /\ failures' = 0
    /\ session_dir' = NoSessionDir
    /\ step_attempts' = EmptyDict
    /\ slept' = 0
    /\ oexc' = "none"
    /\ UNCHANGED <<max_retries, max_failures, failure_count, is_open, created_files,
                   created_dirs, step_execution_counts, checkpoint_state, disk_files,
                   disk_dirs, taken, completed>>

\* The for loop takes the next step of the workflow (lines 56-67): a
\* checkpointed step whose key is in _checkpoint_state is skipped.  A
\* workflow has at most MaxSteps steps, and at most MaxSteps steps are
\* attempted over all invocations.
ForNext ==
    /\ UNCHANGED notOrchVars
    /\ opc = "for"
    /\ i < MaxSteps
    /\ \E s \in Steps :
        LET key == StepKey(i, s.action)
            skip == s.checkpoint /\ key \in checkpoint_state
        IN /\ skip \/ taken < MaxSteps
           /\ taken' = IF skip THEN taken ELSE taken + 1
           /\ i' = i + 1
           /\ step' = s
           /\ step_key' = key
           /\ step_execution_counts' = SetDefault(step_execution_counts, ExecKey(key))
           /\ attempts' = IF skip THEN attempts ELSE 0
           /\ success' = IF skip THEN success ELSE FALSE
           /\ opc' = IF skip THEN "for" ELSE "while"
    /\ UNCHANGED <<max_retries, max_failures, failure_count, is_open, created_files,
                   created_dirs, checkpoint_state, disk_files, disk_dirs, invocations,
                   steps_executed, failures, session_dir, step_attempts, slept,
                   completed, oexc>>

\* The dictionary execute_with_retry returns (lines 162-168).
OrchResult ==
    [status |-> "completed", steps_executed |-> steps_executed,
     failures |-> failures, step_attempts |-> step_attempts,
     executions |-> step_execution_counts]

\* The workflow has no further step: execute_with_retry returns OrchResult.
ForEnd ==
    /\ UNCHANGED notOrchVars
    /\ opc = "for"
    /\ opc' = "returned"
    /\ UNCHANGED <<max_retries, max_failures, failure_count, is_open, created_files,
                   created_dirs, step_execution_counts, checkpoint_state, disk_files,
                   disk_dirs, invocations, i, step, step_key, attempts, success,
                   steps_executed, failures, session_dir, step_attempts, slept, taken,
                   completed, oexc>>

\* A pass of the while loop begins (lines 68-71): the attempt is counted.
Attempt ==
    /\ UNCHANGED notOrchVars
    /\ opc = "while"
    /\ RetryContinues(attempts, max_retries, success)
    /\ attempts' = attempts + 1
    /\ step_execution_counts' =
          [step_execution_counts EXCEPT ![ExecKey(step_key)] = @ + 1]
    /\ opc' = "try"
    /\ UNCHANGED <<max_retries, max_failures, failure_count, is_open, created_files,
                   created_dirs, checkpoint_state, disk_files, disk_dirs, invocations,
                   i, step, step_key, success, steps_executed, failures, session_dir,
                   step_attempts, slept, taken, completed, oexc>>

\* The try block of the pass (lines 73-128): the step raises, after the
\* wait of line 77 when it fails by its count, or it does its action and
\* succeeds.
Try ==
    /\ UNCHANGED notOrchVars
    /\ opc = "try"
    /\ LET ok == Failure(step, attempts) = "none"
           sid == NewSession(created_dirs)
           writes == ok /\ step.action = "write_file"
           creates == ok /\ step.action = "create_session"
       IN /\ success' = ok
          /\ steps_executed' = IF ok THEN steps_executed + 1 ELSE steps_executed
          /\ completed' = IF ok THEN completed \cup {StepId(step)} ELSE completed
          /\ checkpoint_state' = IF ok /\ step.checkpoint
                                 THEN checkpoint_state \cup {step_key}
                                 ELSE checkpoint_state
          /\ session_dir' = IF creates THEN sid ELSE session_dir
          /\ created_files' = IF writes THEN Append(created_files, step.path)
                              ELSE created_files
          /\ created_dirs' = IF creates THEN TrackSession(created_dirs, sid)
                             ELSE created_dirs
          /\ disk_files' = IF writes THEN [disk_files EXCEPT ![step.path] = "written"]
                           ELSE disk_files
          /\ disk_dirs' = IF creates THEN disk_dirs \cup {HarnessDir, sid} ELSE disk_dirs
          /\ slept' = slept + SleepBeforeFailure(step, attempts)
          /\ opc' = IF ok THEN "while" ELSE "except"
    /\ UNCHANGED <<max_retries, max_failures, failure_count, is_open,
                   step_execution_counts, invocations, i, step, step_key, attempts,
                   failures, step_attempts, taken, oexc>>

\* The except block of the pass (lines 130-156): record_failure; after the
\* last attempt the rollback for a mutating action and the raise; before
\* it the breaker test and the backoff wait.
Except ==
    /\ UNCHANGED notOrchVars
    /\ opc = "except"
    /\ LET open == RecordFailureOpens(is_open, failure_count, max_failures)
           exhausted == attempts >= max_retries
           raises == exhausted \/ open
           rolls == exhausted /\ RollsBack(step.action)
       IN /\ failure_count' = failure_count + 1
          /\ is_open' = open
          /\ failures' = IF exhausted THEN failures + 1 ELSE failures
          /\ disk_files' = IF rolls THEN RollbackFiles(disk_files, created_files)
                           ELSE disk_files
          /\ disk_dirs' = IF rolls
                          THEN RollbackDirs(disk_dirs, created_dirs, Len(created_dirs))
                          ELSE disk_dirs
          /\ slept' = slept + (IF raises THEN 0 ELSE attempts)
          /\ opc' = IF raises THEN "raised" ELSE "while"
          /\ oexc' = IF raises
                     THEN (IF open THEN BreakerOpened ELSE Failure(step, attempts))
                     ELSE oexc
    /\ UNCHANGED <<max_retries, max_failures, created_files, created_dirs,
                   step_execution_counts, checkpoint_state, invocations, i, step,
                   step_key, attempts, success, steps_executed, session_dir,
                   step_attempts, taken, completed>>

\* The while loop ends (lines 158-160).
WhileExit ==
    /\ UNCHANGED notOrchVars
    /\ opc = "while"
    /\ ~RetryContinues(attempts, max_retries, success)
    /\ step_attempts' = IF IsStepAction(step.action)
                        THEN Put(step_attempts, step.action \o "_attempts", attempts)
                        ELSE step_attempts
    /\ opc' = "for"
    /\ UNCHANGED <<max_retries, max_failures, failure_count, is_open, created_files,
                   created_dirs, step_execution_counts, checkpoint_state, disk_files,
                   disk_dirs, invocations, i, step, step_key, attempts, success,
                   steps_executed, failures, session_dir, slept, taken, completed,
                   oexc>>

\* CircuitBreaker.record_failure() called on the orchestrator's breaker
\* (lines 21-25) by the owner of the instance, before or after an
\* invocation: the module starts no thread, execute_with_retry returns only
\* when the workflow has ended, and an instance belongs to one workflow
\* run, so no call falls inside an invocation.  Such calls are followed
\* until the count is one above the threshold.
RecordFailure ==
    /\ UNCHANGED notOrchVars
    /\ opc \in {"idle", "returned", "raised"}
    /\ failure_count <= max_failures
    /\ failure_count' = failure_count + 1
    /\ is_open' = RecordFailureOpens(is_open, failure_count, max_failures)
    /\ UNCHANGED <<max_retries, max_failures, created_files, created_dirs,
                   step_execution_counts, checkpoint_state, disk_files, disk_dirs, opc,
                   invocations, i, step, step_key, attempts, success, steps_executed,
                   failures, session_dir, step_attempts, slept, taken, completed, oexc>>

\* WorkflowOrchestrator.rollback_on_failure([]) called directly by the
\* owner of the instance, before or after an invocation (lines 170-183)
RollbackOnFailure ==
    /\ UNCHANGED notOrchVars
    /\ opc \in {"idle", "returned", "raised"}
    /\ disk_files' = RollbackFiles(disk_files, created_files)
    /\ disk_dirs' = RollbackDirs(disk_dirs, created_dirs, Len(created_dirs))
    /\ UNCHANGED <<max_retries, max_failures, failure_count, is_open, created_files,
                   created_dirs, step_execution_counts, checkpoint_state, opc,
                   invocations, i, step, step_key, attempts, success, steps_executed,
                   failures, session_dir, step_attempts, slept, taken, completed, oexc>>

\* WorkflowOrchestrator(max_retries=mr) in a project whose harness
\* directories are dd (lines 35-47, 16-19).
OrchConstructed(mr, dd) ==
    /\ max_retries = mr
    /\ max_failures = mr
    /\ failure_count = 0
    /\ is_open = FALSE
    /\ created_files = <<>>
    /\ created_dirs = <<>>
    /\ step_execution_counts = EmptyDict
    /\ checkpoint_state = {}
    /\ disk_files = [p \in Paths |-> IF p = "existing.json" THEN "original" ELSE "absent"]
    /\ disk_dirs = dd
    /\ opc = "idle"
    /\ invocations = 0
    /\ i = 0
    /\ step = NoStep
    /\ step_key = ""
    /\ attempts = 0
    /\ success = FALSE
    /\ steps_executed = 0
    /\ failures = 0
    /\ session_dir = NoSessionDir
    /\ step_attempts = EmptyDict
    /\ slept = 0
    /\ taken = 0
    /\ completed = {}
    /\ oexc = "none"


\* ======================================================================
\* FileWriter (src/primitives/file_writer.py)
\* ======================================================================
\* the writers calling FileWriter concurrently on the path are 1..MaxWriters
MaxWriters == 2

Writers == 1..MaxWriters
\* no writer holds the lock
NoWriter == 0
\* the document at the path before any call; writer w writes document w
OldDoc == 0

\* A file is its text; the text of a document is two parts, which reach a
\* file in one os.write or in two.
Missing == [exists |-> FALSE, data |-> <<>>]
File(data) == [exists |-> TRUE, data |-> data]
Doc(d) == <<<<d, 1>>, <<d, 2>>>>
\* bytes of a file no write has filled
Hole == <<0, 0>>
NotRead == [read |-> FALSE, file |-> Missing]

\* the file holds exactly one document, whole
IsComplete(f) == f.exists /\ \E d \in {OldDoc} \cup Writers : f.data = Doc(d)

\* What json.dump hands to the file object: the document, or only its
\* first part when a value in it is not serializable (TypeError).
Text(w) == IF serializable[w] THEN Doc(w) ELSE <<Doc(w)[1]>>
\* how much of it the file object has already written out
Flushed(w) == Len(Text(w)) - Len(buffer[w])

\* os.write of ps at offset off of a file opened with "w"
WriteAt(data, off, ps) ==
    [n \in 1..(IF Len(data) > off + Len(ps) THEN Len(data) ELSE off + Len(ps)) |->
        IF n > off /\ n <= off + Len(ps) THEN ps[n - off]
        ELSE IF n <= Len(data) THEN data[n] ELSE Hole]

\* os.write of ps to a file opened with "a+" (O_APPEND)
WriteAppend(data, ps) == data \o ps

\* a dump that goes to the path itself and not to a temporary file
DumpTargetInPlace(pf, tf, text) == [path |-> File(text), temp |-> tf]

\* write_atomic lines 99-100: the text goes to the temporary file
DumpTarget(pf, tf, text) == [path |-> pf, temp |-> File(text)]

\* a rename that leaves the temporary file behind
AfterRenameKeepsTemp(tf) == [path |-> tf, temp |-> tf]

\* os.rename(temp_path, path), line 103
AfterRename(tf) == [path |-> tf, temp |-> Missing]

\* Writer w calls the method all writers of the run use, with a document
\* that json.dump can serialize or not.
Begin(w, m) ==
    /\ wpc[w] = "idle"
    /\ method = m
    /\ \E ok \in BOOLEAN : serializable' = [serializable EXCEPT ![w] = ok]
    /\ UNCHANGED method

\* FileWriter.write, line 68: open(path, "w") creates or truncates the file
OpenTruncate(w) ==
    /\ UNCHANGED notFileVars
    /\ Begin(w, "write")
    /\ path_file' = File(<<>>)
    /\ wpc' = [wpc EXCEPT ![w] = "dump"]
    /\ UNCHANGED <<temp_files, lock_holder, buffer, rename_fails, observed>>

\* FileWriter.write_atomic, line 95: mkstemp makes a new empty file
Mkstemp(w) ==
    /\ UNCHANGED notFileVars
    /\ Begin(w, "write_atomic")
    /\ \E fails \in BOOLEAN : rename_fails' = [rename_fails EXCEPT ![w] = fails]
    /\ temp_files' = [temp_files EXCEPT ![w] = File(<<>>)]
    /\ wpc' = [wpc EXCEPT ![w] = "dump"]
    /\ UNCHANGED <<path_file, lock_holder, buffer, observed>>

\* FileWriter.write_with_lock, line 137: open(path, "a+") creates the file
\* if it is missing and leaves its text alone
OpenAppend(w) ==
    /\ UNCHANGED notFileVars
    /\ Begin(w, "write_with_lock")
    /\ path_file' = IF path_file.exists THEN path_file ELSE File(<<>>)
    /\ wpc' = [wpc EXCEPT ![w] = "lock"]
    /\ UNCHANGED <<temp_files, lock_holder, buffer, rename_fails, observed>>

\* fcntl.flock(LOCK_EX), line 140: blocks while another holds the lock
Flock(w) ==
    /\ UNCHANGED notFileVars
    /\ wpc[w] = "lock"
    /\ lock_holder = NoWriter
    /\ lock_holder' = w
    /\ wpc' = [wpc EXCEPT ![w] = "truncate"]
    /\ UNCHANGED <<path_file, temp_files, method, serializable, rename_fails, buffer, observed>>

\* f.seek(0); f.truncate(), lines 143-144
Truncate(w) ==
    /\ UNCHANGED notFileVars
    /\ wpc[w] = "truncate"
    /\ path_file' = File(<<>>)
    /\ wpc' = [wpc EXCEPT ![w] = "dump"]
    /\ UNCHANGED <<temp_files, lock_holder, method, serializable, rename_fails, buffer, observed>>

\* json.dump(data, f), line 46.  The file object buffers the text and
\* writes it out whenever its buffer is full: when json.dump returns or
\* raises, any number of the parts, none and all included, has reached the
\* file, and the rest waits in the buffer.  In write_atomic the file is the
\* temporary one and the with block of lines 99-100 closes it.
Dump(w) ==
    /\ UNCHANGED notFileVars
    /\ wpc[w] = "dump"
    /\ IF method = "write_atomic"
       THEN LET r == DumpTarget(path_file, temp_files[w], Text(w))
            IN /\ path_file' = r.path
               /\ temp_files' = [temp_files EXCEPT ![w] = r.temp]
               /\ wpc' = [wpc EXCEPT ![w] = IF serializable[w] THEN "rename" ELSE "cleanup"]
               /\ UNCHANGED buffer
       ELSE \E k \in 0..Len(Text(w)) :
               LET now == SubSeq(Text(w), 1, k)
                   later == SubSeq(Text(w), k + 1, Len(Text(w)))
               IN /\ path_file' =
                        IF k = 0 THEN path_file
                        ELSE IF method = "write"
                             THEN File(WriteAt(path_file.data, 0, now))
                             ELSE File(WriteAppend(path_file.data, now))
                  /\ buffer' = [buffer EXCEPT ![w] = later]
                  /\ wpc' = [wpc EXCEPT ![w] = IF method = "write" THEN "close" ELSE "unlock"]
                  /\ UNCHANGED temp_files
    /\ UNCHANGED <<lock_holder, method, serializable, rename_fails, observed>>

\* an unlock that is skipped when the dump has raised
ReleasedOnSuccessOnly(holder, ok) == IF ok THEN NoWriter ELSE holder

\* the holder of the lock after the finally block, whether the dump
\* succeeded (ok) or raised
Released(holder, ok) == NoWriter

\* fcntl.flock(LOCK_UN) in the finally block, line 152
Unlock(w) ==
    /\ UNCHANGED notFileVars
    /\ wpc[w] = "unlock"
    /\ lock_holder' = Released(lock_holder, serializable[w])
    /\ wpc' = [wpc EXCEPT ![w] = "close"]
    /\ UNCHANGED <<path_file, temp_files, method, serializable, rename_fails, buffer, observed>>

\* The with block of line 68 or 137 ends: the file object writes out what
\* it has buffered and closes; then the call returns True or raises.
Close(w) ==
    /\ UNCHANGED notFileVars
    /\ wpc[w] = "close"
    /\ path_file' =
          IF buffer[w] = <<>> THEN path_file
          ELSE IF method = "write"
               THEN File(WriteAt(path_file.data, Flushed(w), buffer[w]))
               ELSE File(WriteAppend(path_file.data, buffer[w]))
    /\ buffer' = [buffer EXCEPT ![w] = <<>>]
    /\ wpc' = [wpc EXCEPT ![w] = IF serializable[w] THEN "done" ELSE "failed"]
    /\ UNCHANGED <<temp_files, lock_holder, method, serializable, rename_fails, observed>>

\* os.rename(temp_path, path), line 103: write_atomic returns True, or the
\* rename raises and the except block is entered
Rename(w) ==
    /\ UNCHANGED notFileVars
    /\ wpc[w] = "rename"
    /\ IF rename_fails[w]
       THEN /\ wpc' = [wpc EXCEPT ![w] = "cleanup"]
            /\ UNCHANGED <<path_file, temp_files>>
       ELSE LET r == AfterRename(temp_files[w])
            IN /\ path_file' = r.path
               /\ temp_files' = [temp_files EXCEPT ![w] = r.temp]
               /\ wpc' = [wpc EXCEPT ![w] = "done"]
    /\ UNCHANGED <<lock_holder, method, serializable, rename_fails, buffer, observed>>

\* an unlink that leaves the file
AfterUnlinkKeeps(tf) == tf

\* os.unlink(temp_path), line 108
AfterUnlink(tf) == Missing

\* the except block of lines 105-111: the temporary file is removed and the
\* exception raised again
Cleanup(w) ==
    /\ UNCHANGED notFileVars
    /\ wpc[w] = "cleanup"
    /\ temp_files' = [temp_files EXCEPT ![w] = AfterUnlink(temp_files[w])]
    /\ wpc' = [wpc EXCEPT ![w] = "failed"]
    /\ UNCHANGED <<path_file, lock_holder, method, serializable, rename_fails, buffer, observed>>

\* A reader opens the path and reads it, taking no lock.
Read ==
    /\ UNCHANGED notFileVars
    /\ observed' = [read |-> TRUE, file |-> path_file]
    /\ UNCHANGED <<path_file, temp_files, lock_holder, wpc, method, serializable, rename_fails, buffer>>

\* The path before the calls (pf) and the method (m) the writers will call.
FileConstructed(pf, m) ==
    /\ path_file = pf
    /\ temp_files = [w \in Writers |-> Missing]
    /\ lock_holder = NoWriter
    /\ wpc = [w \in Writers |-> "idle"]
    /\ method = m
    /\ serializable = [w \in Writers |-> TRUE]
    /\ rename_fails = [w \in Writers |-> FALSE]
    /\ buffer = [w \in Writers |-> <<>>]
    /\ observed = NotRead


\* ---------------------------------------------------------- FeedbackManager
MaxCalls == 3

\* a result json.dump cannot serialize (a set, an object)
NonSerializableResult == "<object>"

NoData == [k |-> "none"]

\* the arguments of write_pass and of write_fail
PassResults == {"PASS", "", NonSerializableResult}
GapLists == {<<>>, <<"Incorrect result: WRONG">>, <<"No result provided", "">>}
AttemptNumbers == 0..2
\* arguments of the wrong type: an attempt count that is a string, a gap
\* that is a number
NotANumber == "not a number"
NumberGaps == <<1>>

\* json.dump(data, f) in write_atomic succeeds
Dumps(data) == Get(data, "result", "") # NonSerializableResult

\* FeedbackManager._write_feedback(data, pod_dir): validate, then
\* FileWriter.write_atomic, which leaves the path alone when the dump raises
WriteFeedback(data) ==
    /\ UNCHANGED notFmVars
    /\ fm_calls < MaxCalls
    /\ fm_calls' = fm_calls + 1
    /\ fm_data' = data
    /\ IF ~validate_feedback(data)
       THEN fm_exc' = "ValueError" /\ UNCHANGED feedback_json
       ELSE IF ~Dumps(data)
       THEN fm_exc' = "TypeError" /\ UNCHANGED feedback_json
       ELSE fm_exc' = "none" /\ feedback_json' = data

\* FeedbackManager.write_pass(result, attempts, pod_dir, pod_id); the
\* timestamp and the pod id of the document are left out
WritePass ==
    \E result \in PassResults :
        \/ \E n \in AttemptNumbers : WriteFeedback(PassDoc(result, n))
        \/ WriteFeedback(PassDoc(result, NotANumber))

\* FeedbackManager.write_fail(gaps, attempt, pod_dir, pod_id)
WriteFail ==
    \/ \E gaps \in GapLists :
          \/ \E n \in AttemptNumbers : WriteFeedback(FailDoc(gaps, n))
          \/ WriteFeedback(FailDoc(gaps, NotANumber))
    \/ \E n \in AttemptNumbers : WriteFeedback(FailDoc(NumberGaps, n))

\* FeedbackManager() on a pod directory whose feedback.json holds fb
FmConstructed(fb) ==
    /\ feedback_json = fb
    /\ fm_data = NoData
    /\ fm_exc = "none"
    /\ fm_calls = 0

\* ----------------------------------------------------- RequirementComparator
NoOut == [exc |-> "none", status |-> "none", gaps |-> <<>>]

\* comparator.evaluate(cmp_instructions, cmp_result)
Compare ==
    /\ UNCHANGED notCmpVars
    /\ cmp_out = NoOut
    /\ cmp_out' = evaluate(cmp_instructions, cmp_result)
    /\ UNCHANGED <<cmp_instructions, cmp_result>>

\* a comparator and the arguments of the call to come
CmpConstructed(instructions, result) ==
    /\ cmp_instructions = instructions
    /\ cmp_result = result
    /\ cmp_out = NoOut

\* ------------------------------------------------------------- PathResolver
MaxClock == 2
MaxCreates == 3

DirNames == {"alpha", "beta"}

\* datetime.now(timezone.utc).isoformat().replace("+00:00", "Z"): the text
\* of the clock reading
Timestamp(t) == "T" \o ToString(t) \o "Z"

\* f"pod-{pod_name}-{timestamp}" under <session>/pods, and
\* f"worker-{worker_id}-{timestamp}" under <pod>/workers
DirPath(parent, prefix, name, t) ==
    parent \o "/" \o prefix \o "-" \o name \o "-" \o Timestamp(t)

\* <parent>.mkdir(exist_ok=True), then the new directory's
\* mkdir(parents=True), which raises when the directory exists
CreateDir(parent, prefix, name) ==
    /\ UNCHANGED notPrVars
    /\ Len(returned) < MaxCreates
    /\ pr_exc = "none"
    /\ LET path == DirPath(parent, prefix, name, clock)
       IN IF path \in dirs
          THEN /\ pr_exc' = "FileExistsError"
               /\ dirs' = dirs \cup {parent}
               /\ UNCHANGED returned
          ELSE /\ pr_exc' = "none"
               /\ dirs' = dirs \cup {parent, path}
               /\ returned' = Append(returned, path)
    /\ UNCHANGED clock

\* PathResolver.create_pod_dir(session_dir, pod_name)
CreatePodDir == \E name \in DirNames : CreateDir("pods", "pod", name)

\* PathResolver.create_worker_dir(pod_dir, worker_id)
CreateWorkerDir == \E name \in DirNames : CreateDir("workers", "worker", name)

\* the clock moves on between two calls
Tick ==
    /\ UNCHANGED notPrVars
    /\ clock < MaxClock
    /\ clock' = clock + 1
    /\ UNCHANGED <<dirs, pr_exc, returned>>

\* PathResolver() with an empty session directory and an empty pod directory
PrConstructed ==
    /\ clock = 0
    /\ dirs = {}
    /\ pr_exc = "none"
    /\ returned = <<>>

\* ---------------------------------------------------------- WorkerExecution
MaxRuns == 3
MaxWorkerRetries == 2
MaxCallerCalls == 1

\* feedback.json holding the empty object
EmptyDoc == [k |-> "doc"]

\* what the supervisor side can leave in feedback.json between two runs
WorkFeedbacks ==
    {PassDoc("PASS", 1), EmptyDoc}
        \cup {FailDoc(<<"Incorrect result: 24">>, n) : n \in 0..MaxWorkerRetries}

\* _call_llm(prompt), the mock provider
call_llm(prompt) == ResultDoc("Mock LLM response to: " \o prompt)

\* "\n".join(f"- {gap}" for gap in gaps)
RECURSIVE GapContext(_)
GapContext(gaps) ==
    IF Len(gaps) = 0 THEN ""
    ELSE IF Len(gaps) = 1 THEN "- " \o gaps[1]
    ELSE "- " \o gaps[1] \o "\n" \o GapContext(Tail(gaps))

\* the prompt execute_with_feedback builds
EnhancedPrompt(instructions, feedback) ==
    instructions.instructions \o "\n\nPrevious attempt had these issues:\n"
        \o GapContext(Get(feedback, "gaps", <<>>))
        \o "\n\nPlease address these issues."

\* a retry limit that allows one attempt more
RetriesExhaustedOffByOne(n, max) == n > max

\* attempt >= self.max_retries, line 197
RetriesExhausted(n, max) == n >= max

\* run() raised e before it did anything
RunRaises(e) ==
    /\ work_exc' = e
    /\ UNCHANGED <<work_result, execution_status, execution_history, llm_calls,
                   result_writes>>

\* run() called the LLM, which gave result, for attempt number n, wrote the
\* result and set the status to st
RunExecutes(result, n, st) ==
    /\ llm_calls' = llm_calls + 1
    /\ execution_history' = Append(execution_history, [attempt |-> n, result |-> result])
    /\ work_result' = result
    /\ result_writes' = result_writes + 1
    /\ execution_status' = st
    /\ work_exc' = "none"

\* run() called the LLM, which gave result, for attempt number n, and
\* write_result(result, instructions["output_path"]) raised KeyError after
\* the history entry was added (lines 202-204, 210-212)
RunFailsToWrite(result, n) ==
    /\ llm_calls' = llm_calls + 1
    /\ execution_history' = Append(execution_history, [attempt |-> n, result |-> result])
    /\ work_exc' = "KeyError"
    /\ UNCHANGED <<work_result, result_writes, execution_status>>

\* the execution of run(): the LLM call, the history entry and the write
RunExecutesOrFails(result, n, st) ==
    IF "output_path" \in DOMAIN work_instructions
    THEN RunExecutes(result, n, st)
    ELSE RunFailsToWrite(result, n)

\* run() returned without executing; st is the status it leaves
RunSkips(st) ==
    /\ execution_status' = st
    /\ work_exc' = "none"
    /\ UNCHANGED <<work_result, execution_history, llm_calls, result_writes>>

\* WorkerExecution.run(), lines 172-213.  `if feedback:` is false for a
\* missing file and for an empty object.
WorkerRun ==
    /\ UNCHANGED notWeVars
    /\ runs < MaxRuns
    /\ runs' = runs + 1
    /\ UNCHANGED <<work_instructions, work_feedback, worker_max_retries, caller_calls>>
    /\ IF work_instructions = Absent THEN RunRaises("FileNotFoundError")
       ELSE IF work_instructions = Partial THEN RunRaises("JSONDecodeError")
       ELSE IF "instructions" \notin DOMAIN work_instructions THEN RunRaises("ValueError")
       ELSE IF work_feedback = Partial THEN RunRaises("JSONDecodeError")
       ELSE IF work_feedback \in {Absent, EmptyDoc}
       THEN RunExecutesOrFails(call_llm(work_instructions.instructions), 1,
                               "WAITING_FEEDBACK")
       ELSE IF Get(work_feedback, "status", "") = "FAIL"
       THEN IF RetriesExhausted(Get(work_feedback, "attempt", 0), worker_max_retries)
            THEN RunSkips("MAX_RETRIES_EXCEEDED")
            ELSE RunExecutesOrFails(call_llm(EnhancedPrompt(work_instructions, work_feedback)),
                                    Get(work_feedback, "attempt", 0) + 1, "RETRY")
       ELSE IF Get(work_feedback, "status", "") = "PASS"
       THEN RunSkips("COMPLETE")
       ELSE RunSkips(execution_status)

\* between two runs the supervisor side writes feedback.json (one rename,
\* or an open and a write with a reader in between)
FeedbackArrives ==
    /\ UNCHANGED notWeVars
    /\ \E fb \in WorkFeedbacks \cup {Partial} :
          /\ fb # work_feedback
          /\ work_feedback' = fb
    /\ UNCHANGED <<work_instructions, work_result, worker_max_retries,
                   execution_status, execution_history, work_exc, runs, llm_calls,
                   result_writes, caller_calls>>

\* one more call of a public method other than run(); at most
\* MaxCallerCalls of them are followed
CallerCalls ==
    /\ caller_calls < MaxCallerCalls
    /\ caller_calls' = caller_calls + 1

\* a call that changes the status or the history and nothing else
StateCall(st, hist) ==
    /\ UNCHANGED notWeVars
    /\ CallerCalls
    /\ execution_status' = st
    /\ execution_history' = hist
    /\ UNCHANGED <<work_instructions, work_feedback, work_result, worker_max_retries,
                   work_exc, runs, llm_calls, result_writes>>

\* WorkerExecution.reset()
Reset == StateCall("idle", <<>>)

\* WorkerExecution.clear_state()
ClearState == StateCall("idle", <<>>)

\* the statuses a caller sets
CallerStatuses == {"idle", "running"}

\* WorkerExecution.set_status(status)
SetStatus ==
    \E st \in CallerStatuses :
        /\ st # execution_status
        /\ StateCall(st, execution_history)

\* the entry a caller adds
CallerEntry == [attempt |-> 0, result |-> ResultDoc("added by the caller")]

\* WorkerExecution.add_to_history(entry)
AddToHistory == StateCall(execution_status, Append(execution_history, CallerEntry))

\* the document a caller hands to write_result
CallerDocs == {ResultDoc("written by the caller")}

\* WorkerExecution.write_result(result_data, output_path) called directly
\* (lines 105-122): the document goes to the file of the working directory
\* that output_path names
WriteResult ==
    /\ UNCHANGED notWeVars
    /\ CallerCalls
    /\ \E d \in CallerDocs, f \in {"instructions.json", "feedback.json", "result.json"} :
          /\ work_instructions' = IF f = "instructions.json" THEN d ELSE work_instructions
          /\ work_feedback' = IF f = "feedback.json" THEN d ELSE work_feedback
          /\ work_result' = IF f = "result.json" THEN d ELSE work_result
    /\ UNCHANGED <<worker_max_retries, execution_status, execution_history, work_exc,
                   runs, llm_calls, result_writes>>

\* a call that asks the LLM once and changes nothing else
LlmCall ==
    /\ UNCHANGED notWeVars
    /\ CallerCalls
    /\ llm_calls' = llm_calls + 1
    /\ UNCHANGED <<work_instructions, work_feedback, work_result, worker_max_retries,
                   execution_status, execution_history, work_exc, runs, result_writes>>

\* WorkerExecution.execute(instructions) called directly (lines 75-90)
WorkerExecute == LlmCall

\* WorkerExecution.execute_with_feedback(instructions, feedback) called
\* directly (lines 139-156)
WorkerExecuteWithFeedback == LlmCall

\* WorkerExecution(working_dir, max_retries=mr) on a directory whose
\* instructions.json holds ins, with no feedback and no result yet
WeConstructed(ins, mr) ==
    /\ work_instructions = ins
    /\ work_feedback = Absent
    /\ work_result = Absent
    /\ worker_max_retries = mr
    /\ execution_status = "idle"
    /\ execution_history = <<>>
    /\ work_exc = "none"
    /\ runs = 0
    /\ llm_calls = 0
    /\ result_writes = 0
    /\ caller_calls = 0

\* ---------------------------------------------------------- PodMessageQueue
MaxQueueCalls == 6

Pods == {"pod-a", "pod-b"}
Payloads == {"first", "second"}

\* the None of receive
NoMessage == [from |-> "", to |-> "", payload |-> "None"]

\* a queue that hands out its newest message
PoppedLast(q) == q[Len(q)]

\* the message self._queues[pod].pop(0) returns
Popped(q) == Head(q)

\* PodMessageQueue.send(from_pod, to_pod, payload)
Send ==
    /\ UNCHANGED notMqVars
    /\ mq_calls < MaxQueueCalls
    /\ mq_calls' = mq_calls + 1
    /\ \E from_pod \in Pods, to_pod \in Pods, payload \in Payloads :
          LET msg == [from |-> from_pod, to |-> to_pod, payload |-> payload]
              qs == IF to_pod \in DOMAIN queues THEN queues
                    ELSE [p \in DOMAIN queues \cup {to_pod} |->
                             IF p = to_pod THEN <<>> ELSE queues[p]]
          IN /\ queues' = [qs EXCEPT ![to_pod] = Append(@, msg)]
             /\ sent' = [sent EXCEPT ![to_pod] = Append(@, msg)]
    /\ UNCHANGED <<received, mq_ret>>

\* PodMessageQueue.receive(pod)
Receive ==
    /\ UNCHANGED notMqVars
    /\ mq_calls < MaxQueueCalls
    /\ mq_calls' = mq_calls + 1
    /\ \E pod \in Pods :
          IF pod \notin DOMAIN queues \/ queues[pod] = <<>>
          THEN /\ mq_ret' = NoMessage
               /\ UNCHANGED <<queues, received>>
          ELSE /\ mq_ret' = Popped(queues[pod])
               /\ queues' = [queues EXCEPT ![pod] = Tail(@)]
               /\ received' = [received EXCEPT ![pod] = Append(@, Popped(queues[pod]))]
    /\ UNCHANGED sent

\* PodMessageQueue()
MqConstructed ==
    /\ queues = EmptyDict
    /\ sent = [p \in Pods |-> <<>>]
    /\ received = [p \in Pods |-> <<>>]
    /\ mq_ret = NoMessage
    /\ mq_calls = 0

\* -------------------------------------------------- WorkflowDependencyGraph
MaxGraphCalls == 4

WorkflowNames == {"a", "b", "c"}

NoCall == [op |-> "none", name |-> ""]

\* a cascade that follows the dependencies of the dependents too
DependentsTransitive(deps, name) ==
    LET RECURSIVE Reach(_)
        Reach(seen) ==
            LET more == seen \cup {w \in DOMAIN deps : deps[w] \cap (seen \cup {name}) # {}}
            IN IF more = seen THEN seen ELSE Reach(more)
    IN Reach({})

\* the workflows registered with name among their dependencies
Dependents(deps, name) == {w \in DOMAIN deps : name \in deps[w]}

\* WorkflowDependencyGraph.add_workflow(name, dependencies); _workflows
\* holds the same as _dependencies
AddWorkflow ==
    /\ UNCHANGED notDgVars
    /\ dg_calls < MaxGraphCalls
    /\ dg_calls' = dg_calls + 1
    /\ \E name \in WorkflowNames, deps \in SUBSET WorkflowNames :
          /\ dependencies' = Put(dependencies, name, deps)
          /\ statuses' = Put(statuses, name, "pending")
          /\ marked' = marked \ {name}
          /\ dg_last' = [op |-> "add_workflow", name |-> name]
    /\ UNCHANGED cancelled_due_to_dependency

\* WorkflowDependencyGraph.mark_failed(name): the status of name is set
\* first, the loop over the dependents runs after it
MarkFailed ==
    /\ UNCHANGED notDgVars
    /\ dg_calls < MaxGraphCalls
    /\ dg_calls' = dg_calls + 1
    /\ \E name \in WorkflowNames :
          /\ statuses' = [w \in DOMAIN statuses \cup {name} |->
                             IF w \in Dependents(dependencies, name) THEN "cancelled"
                             ELSE IF w = name THEN "failed"
                             ELSE statuses[w]]
          /\ cancelled_due_to_dependency' =
                cancelled_due_to_dependency \cup Dependents(dependencies, name)
          /\ marked' = marked \cup {name}
          /\ dg_last' = [op |-> "mark_failed", name |-> name]
    /\ UNCHANGED dependencies

\* WorkflowDependencyGraph()
DgConstructed ==
    /\ dependencies = EmptyDict
    /\ statuses = EmptyDict
    /\ cancelled_due_to_dependency = {}
    /\ marked = {}
    /\ dg_calls = 0
    /\ dg_last = NoCall

\* ---------------------------------------------------------------- LLMClient
MaxLlmRetries == 6

\* what httpx.post gives: a timeout, or a response with a status code and,
\* for 200, a text
TimedOut == [status |-> 0, text |-> ""]
Responses ==
    {TimedOut}
        \cup {[status |-> 200, text |-> t] : t \in {"Success!", ""}}
        \cup {[status |-> c, text |-> ""] : c \in {429, 400, 500}}

\* LLMClient.call(prompt, config) on that answer: [exc, text]
call(response) ==
    IF response = TimedOut THEN [exc |-> "TimeoutError", text |-> ""]
    ELSE IF response.status = 429 THEN [exc |-> "RateLimitError", text |-> ""]
    ELSE IF response.status >= 400 THEN [exc |-> "LLMAPIError", text |-> ""]
    ELSE [exc |-> "none", text |-> response.text]

\* a delay that grows by one second per attempt
calculate_backoff_delay_linear(n) == n

\* LLMClient._calculate_backoff_delay(attempt)
calculate_backoff_delay(n) == 2 ^ (n - 1)

\* call_with_retry(prompt, config, retries) is called: attempt = 0
CallWithRetry ==
    /\ UNCHANGED notLlmVars
    /\ llm_pc = "idle"
    /\ llm_pc' = "while"
    /\ llm_attempt' = 0
    /\ UNCHANGED <<retries, llm_exc, llm_ret, api_calls, rate_limited, sleeps>>

\* while attempt < retries fails: line 177
WhileEnd ==
    /\ UNCHANGED notLlmVars
    /\ llm_pc = "while"
    /\ ~(llm_attempt < retries)
    /\ llm_pc' = "raised"
    /\ llm_exc' = "RateLimitError"
    /\ UNCHANGED <<retries, llm_attempt, llm_ret, api_calls, rate_limited, sleeps>>

\* one pass of the loop up to the sleep, lines 164-170: the call of the API
\* and, for a rate limit, the count and the test for the last attempt
ApiCall ==
    /\ UNCHANGED notLlmVars
    /\ llm_pc = "while"
    /\ llm_attempt < retries
    /\ api_calls' = api_calls + 1
    /\ \E response \in Responses :
          LET out == call(response)
          IN IF out.exc = "none"
             THEN /\ llm_pc' = "returned"
                  /\ llm_ret' = out.text
                  /\ UNCHANGED <<llm_attempt, llm_exc, rate_limited>>
             ELSE IF out.exc = "RateLimitError"
             THEN /\ llm_attempt' = llm_attempt + 1
                  /\ rate_limited' = rate_limited + 1
                  /\ IF llm_attempt + 1 >= retries
                     THEN llm_pc' = "raised" /\ llm_exc' = "RateLimitError"
                     ELSE llm_pc' = "sleep" /\ UNCHANGED llm_exc
                  /\ UNCHANGED llm_ret
             ELSE /\ llm_pc' = "raised"
                  /\ llm_exc' = out.exc
                  /\ UNCHANGED <<llm_attempt, llm_ret, rate_limited>>
    /\ UNCHANGED <<retries, sleeps>>

\* time.sleep(self._calculate_backoff_delay(attempt)), lines 173-174
Backoff ==
    /\ UNCHANGED notLlmVars
    /\ llm_pc = "sleep"
    /\ sleeps' = Append(sleeps, calculate_backoff_delay(llm_attempt))
    /\ llm_pc' = "while"
    /\ UNCHANGED <<retries, llm_attempt, llm_exc, llm_ret, api_calls, rate_limited>>

\* LLMClient() before call_with_retry(prompt, config, retries=r)
LlmConstructed(r) ==
    /\ retries = r
    /\ llm_attempt = 0
    /\ llm_pc = "idle"
    /\ llm_exc = "none"
    /\ llm_ret = ""
    /\ api_calls = 0
    /\ rate_limited = 0
    /\ sleeps = <<>>

\* the components at rest, while another part of the program runs
CompConstructed ==
    /\ FmConstructed(Absent)
    /\ CmpConstructed("", NoneResult)
    /\ PrConstructed
    /\ WeConstructed(Absent, 0)
    /\ MqConstructed
    /\ DgConstructed
    /\ LlmConstructed(1)

\* The pod directory before run(): instructions.json missing, invalid or a
\* valid document; no result yet; feedback.json missing or left from before.
InitFiles ==
    {[f \in FileNames |->
        IF f = "instructions.json" THEN ins ELSE IF f = "feedback.json" THEN fb ELSE Absent] :
      ins \in {Absent, Partial, InstrNoPath} \cup {InstrDoc(p) : p \in FileNames},
      fb \in {Absent, FailDoc(<<"Incorrect result: 24">>, 1), PassDoc("PASS", 1)}}

\* FeedbackLoop(pod_dir, max_attempts=ma) on a pod directory holding fs
LoopConstructed(fs, ma) ==
    /\ files = fs
    /\ max_attempts = ma
    /\ current_attempt = 0
    /\ loop_status = "idle"
    /\ iteration_count = 0
    /\ history = <<>>
    /\ sup_attempt = 0
    /\ evaluation_history = <<>>
    /\ pc = "idle"
    /\ pending = NoPending
    /\ ret = NoRet
    /\ exc = "none"
    /\ log = <<>>
    /\ files0 = fs

Init ==
    /\ \E fs \in InitFiles, ma \in 0..MaxAttempts : LoopConstructed(fs, ma)
    /\ OrchConstructed(0, {})
    /\ FileConstructed(Missing, "write_atomic")
    /\ CompConstructed

Next ==
    \/ Run
    \/ LoopTest
    \/ RunSingleIteration
    \/ FeedbackExists
    \/ ReadFeedback
    \/ Execute
    \/ ExecuteWithFeedback
    \/ WriteOpen
    \/ WriteClose
    \/ Evaluate
    \/ Track
    \/ ReadGaps

Spec == Init /\ [][Next]_vars

NextEnv == Next \/ RemoveFeedback

SpecEnv == Init /\ [][NextEnv]_vars

\* An orchestrator instance over several invocations; no loop runs.
InitOrch ==
    /\ \E mr \in 0..MaxRetries, dd \in {{}, {HarnessDir, ForeignSession}} :
          OrchConstructed(mr, dd)
    /\ LoopConstructed([f \in FileNames |-> Absent], 0)
    /\ FileConstructed(Missing, "write_atomic")
    /\ CompConstructed

NextOrch ==
    \/ Invoke
    \/ ForNext
    \/ ForEnd
    \/ Attempt
    \/ Try
    \/ Except
    \/ WhileExit

SpecOrch == InitOrch /\ [][NextOrch]_vars

\* the orchestrator with direct calls of its public rollback and of its
\* breaker between the invocations, all from the one thread that owns the
\* instance
NextOrchEnv == NextOrch \/ RecordFailure \/ RollbackOnFailure

SpecOrchEnv == InitOrch /\ [][NextOrchEnv]_vars

\* Concurrent calls of one FileWriter method on one path, and a reader; no
\* loop and no orchestrator run.
InitFile ==
    /\ \E pf \in {Missing, File(Doc(OldDoc))},
          m \in {"write", "write_atomic", "write_with_lock"} : FileConstructed(pf, m)
    /\ LoopConstructed([f \in FileNames |-> Absent], 0)
    /\ OrchConstructed(0, {})
    /\ CompConstructed

NextFile ==
    \/ \E w \in Writers : OpenTruncate(w)
    \/ \E w \in Writers : Mkstemp(w)
    \/ \E w \in Writers : OpenAppend(w)
    \/ \E w \in Writers : Flock(w)
    \/ \E w \in Writers : Truncate(w)
    \/ \E w \in Writers : Dump(w)
    \/ \E w \in Writers : Unlock(w)
    \/ \E w \in Writers : Close(w)
    \/ \E w \in Writers : Rename(w)
    \/ \E w \in Writers : Cleanup(w)
    \/ Read

SpecFile == InitFile /\ [][NextFile]_vars

\* Every thread that has called write_with_lock keeps running: a step of
\* its call that stays possible is eventually taken.
FairFile ==
    \A w \in Writers :
        WF_vars(Flock(w) \/ Truncate(w) \/ Dump(w) \/ Unlock(w) \/ Close(w))

\* Concurrent calls of write_with_lock on one path
InitFileLock ==
    /\ \E pf \in {Missing, File(Doc(OldDoc))} : FileConstructed(pf, "write_with_lock")
    /\ LoopConstructed([f \in FileNames |-> Absent], 0)
    /\ OrchConstructed(0, {})
    /\ CompConstructed

NextFileLock ==
    \/ \E w \in Writers : OpenAppend(w)
    \/ \E w \in Writers : Flock(w)
    \/ \E w \in Writers : Truncate(w)
    \/ \E w \in Writers : Dump(w)
    \/ \E w \in Writers : Unlock(w)
    \/ \E w \in Writers : Close(w)

SpecFileFair == InitFileLock /\ [][NextFileLock]_vars /\ FairFile

\* The rest of the program at rest, for the specifications of one component
\* of the first group
RestConstructed ==
    /\ MqConstructed
    /\ DgConstructed
    /\ LlmConstructed(1)
    /\ LoopConstructed([f \in FileNames |-> Absent], 0)
    /\ OrchConstructed(0, {})
    /\ FileConstructed(Missing, "write_atomic")

\* A sequence of write_pass / write_fail calls on a new pod directory
InitFm ==
    /\ FmConstructed(Absent)
    /\ CmpConstructed("", NoneResult)
    /\ PrConstructed
    /\ WeConstructed(Absent, 0)
    /\ RestConstructed

NextFm == WritePass \/ WriteFail

SpecFm == InitFm /\ [][NextFm]_vars

\* RequirementComparator.evaluate applied to every instruction text and
\* every result value
InitCmp ==
    /\ \E instructions \in InstrTexts, result \in ResultValues :
          CmpConstructed(instructions, result)
    /\ FmConstructed(Absent)
    /\ PrConstructed
    /\ WeConstructed(Absent, 0)
    /\ RestConstructed

NextCmp == Compare

SpecCmp == InitCmp /\ [][NextCmp]_vars

\* create_pod_dir and create_worker_dir calls, at the same and at different
\* clock readings
InitPr ==
    /\ PrConstructed
    /\ FmConstructed(Absent)
    /\ CmpConstructed("", NoneResult)
    /\ WeConstructed(Absent, 0)
    /\ RestConstructed

NextPr == CreatePodDir \/ CreateWorkerDir \/ Tick

SpecPr == InitPr /\ [][NextPr]_vars

\* run() calls of one worker, with the supervisor side writing feedback.json
\* and the caller using the other public methods in between
InitWe ==
    /\ \E ins \in {Absent, Partial, InstrNoPath, InstrDoc("result.json")},
          mr \in 0..MaxWorkerRetries :
          WeConstructed(ins, mr)
    /\ FmConstructed(Absent)
    /\ CmpConstructed("", NoneResult)
    /\ PrConstructed
    /\ RestConstructed

NextWe ==
    \/ WorkerRun
    \/ FeedbackArrives
    \/ Reset
    \/ ClearState
    \/ SetStatus
    \/ AddToHistory
    \/ WriteResult
    \/ WorkerExecute
    \/ WorkerExecuteWithFeedback

SpecWe == InitWe /\ [][NextWe]_vars

\* The loop, the orchestrator, the file writer and the components of the
\* first group at rest
FirstConstructed ==
    /\ LoopConstructed([f \in FileNames |-> Absent], 0)
    /\ OrchConstructed(0, {})
    /\ FileConstructed(Missing, "write_atomic")
    /\ FmConstructed(Absent)
    /\ CmpConstructed("", NoneResult)
    /\ PrConstructed
    /\ WeConstructed(Absent, 0)

\* send and receive calls on one queue in any order
InitMq == MqConstructed /\ DgConstructed /\ LlmConstructed(1) /\ FirstConstructed

NextMq == Send \/ Receive

SpecMq == InitMq /\ [][NextMq]_vars

\* add_workflow and mark_failed calls on one graph in any order
InitDg == DgConstructed /\ MqConstructed /\ LlmConstructed(1) /\ FirstConstructed

NextDg == AddWorkflow \/ MarkFailed

SpecDg == InitDg /\ [][NextDg]_vars

\* one call_with_retry call for every retries argument and every answer
\* of the API
InitLlm ==
    /\ \E r \in 0..MaxLlmRetries : LlmConstructed(r)
    /\ MqConstructed
    /\ DgConstructed
    /\ FirstConstructed

NextLlm == CallWithRetry \/ WhileEnd \/ ApiCall \/ Backoff

SpecLlm == InitLlm /\ [][NextLlm]_vars

\* the calling thread keeps running: the API answers or times out, and the
\* sleep ends
SpecLlmFair == SpecLlm /\ WF_vars(NextLlm)

\* ------------------------------------------------- claims on the feedback loop
Terminal == pc \in {"returned", "raised"}
Idx(e) == {ix \in DOMAIN log : log[ix].e = e}
NoPassVerdict == \A ix \in DOMAIN history : history[ix].status # "PASS"
\* every iteration begun so far ended with a verdict of the supervisor
AllVerdicts == Len(history) = iteration_count

\* C1: with max_attempts >= 1 the loop never begins more than max_attempts
\* iterations, and a run in which every iteration produced a worker result and
\* a verdict, none of them PASS, returns FAIL / MAX_ATTEMPTS_EXCEEDED with
\* attempts = max_attempts, after exactly max_attempts iterations.
C1_BoundedAttempts ==
    max_attempts >= 1 =>
        /\ iteration_count <= max_attempts
        /\ current_attempt <= max_attempts
        /\ (pc = "returned" /\ AllVerdicts /\ NoPassVerdict) =>
              /\ ret.status = "FAIL"
              /\ ret.reason = "MAX_ATTEMPTS_EXCEEDED"
              /\ ret.attempts = max_attempts
              /\ iteration_count = max_attempts

C1_Witness ==
    /\ pc = "returned"
    /\ max_attempts = 3
    /\ Len(history) = 3
    /\ NoPassVerdict
    /\ ret.reason = "MAX_ATTEMPTS_EXCEEDED"

\* C2: when an evaluation returns PASS it is the last event of the run: the
\* loop adds its history entry and has then returned PASS, attempts is the
\* number of that evaluation, the result returned is the one the worker
\* wrote in that attempt, and every earlier verdict was FAIL.
C2_PassTerminates ==
    \A ix \in Idx("feedback") :
        log[ix].s = "PASS" =>
            /\ ix = Len(log)
            /\ pc \in {"track", "returned"}
            /\ \A j \in Idx("feedback") : j # ix => log[j].s = "FAIL"
            /\ pc = "returned" =>
                  /\ ret.status = "PASS"
                  /\ ret.attempts = Cardinality(Idx("feedback"))
                  /\ ret.attempts = log[ix].k
                  /\ ret.attempts <= max_attempts
                  /\ \E j \in Idx("written") :
                        j < ix /\ log[j].k = log[ix].k /\ log[j].s = ret.result

C2_Witness ==
    /\ pc = "returned"
    /\ ret.status = "PASS"
    /\ ret.attempts = 2
    /\ max_attempts = 3

\* feedback.json holds a FAIL document
FailOnDisk ==
    /\ "status" \in DOMAIN files["feedback.json"]
    /\ files["feedback.json"].status = "FAIL"

\* the loop is in _read_feedback for a retry
ReadingFeedback == {"retry", "read_feedback"}

\* C3: attempt 1 is a plain worker execution; on an attempt k > 1 the loop
\* goes on to execute_with_feedback exactly when feedback.json holds a FAIL
\* document at the time it is read, and otherwise the attempt has no worker
\* execution and no result write: the loop goes straight to the evaluation
\* with the directory unchanged (or run() raises, when the file was removed
\* between the test for it and the read).
C3_RetryIffFailFeedback ==
    /\ [](/\ (log # <<>> => log[1] = Ev("exec", 1, "plain"))
          /\ \A ix \in Idx("skip") :
                /\ log[ix].k > 1
                /\ \A j \in Idx("exec") \cup Idx("written") : log[j].k # log[ix].k
          /\ \A ix \in Idx("exec") : log[ix].s = "feedback" => log[ix].k > 1)
    /\ [][(/\ pc \in ReadingFeedback
            /\ pc' \notin ReadingFeedback
            /\ files["feedback.json"] # Partial) =>
            /\ (pc' = "execute_with_feedback") <=> FailOnDisk
            /\ ~FailOnDisk =>
                  /\ files' = files
                  /\ \/ /\ pc' = "evaluate"
                        /\ log' = Append(log, Ev("skip", current_attempt, ""))
                     \/ /\ pc' = "raised"
                        /\ pc = "read_feedback"
                        /\ ~Exists("feedback.json")
                        /\ log' = log]_vars

C3_Witness ==
    /\ pc = "evaluate"
    /\ \E ix \in Idx("exec") : log[ix].k = 2 /\ log[ix].s = "feedback"
    /\ \E ix \in Idx("skip") : log[ix].k = 3

\* C4: in one pod the worker and the supervisor alternate.  The feedback of
\* attempt k is written only after the worker's result document of attempt k
\* (at the instructions' output_path, result.json by convention) is written
\* and closed; a worker execution of attempt k+1 only follows the FAIL
\* feedback of attempt k; no file is half written when the supervisor reads,
\* and feedback.json is a complete FAIL document when the worker retries.
C4_Alternation ==
    /\ \A ix \in Idx("feedback") :
          /\ \E j \in Idx("written") : j < ix /\ log[j].k = log[ix].k
          /\ \A j \in Idx("feedback") : j # ix => log[j].k # log[ix].k
    /\ \A ix \in Idx("written") :
          \A j \in Idx("written") : j # ix => log[j].k # log[ix].k
    /\ \A ix \in Idx("exec") :
          log[ix].k > 1 =>
             \E j \in Idx("feedback") :
                j < ix /\ log[j].k = log[ix].k - 1 /\ log[j].s = "FAIL"
    /\ pc = "evaluate" => \A f \in FileNames : files[f] = Partial => files0[f] = Partial
    /\ (pc \in {"retry", "execute_with_feedback"}) =>
          /\ FailOnDisk
          /\ files["feedback.json"].attempt = current_attempt
          /\ Len(files["feedback.json"].gaps) >= 1

C4_Witness ==
    /\ pc = "execute_with_feedback"
    /\ current_attempt = 3
    /\ Cardinality(Idx("written")) = 2
    /\ Cardinality(Idx("feedback")) = 2

\* an exception that is a timeout: the builtin one or the LLM client's
IsTimeout(e) == e \in {"TimeoutError", "LLMTimeoutError"}

\* C5: a timeout raised by the worker in attempt k never reaches the caller:
\* run() returns FAIL with a reason beginning "timeout: " and attempts = k.
C5_TimeoutAbsorbed ==
    \A ix \in Idx("raise") :
        IsTimeout(log[ix].s) =>
            /\ pc = "returned"
            /\ ret.status = "FAIL"
            /\ SubSeq(ret.reason, 1, 9) = "timeout: "
            /\ ret.attempts = log[ix].k

\* the builtin timeout is absorbed (the part of C5 the code keeps)
C5_Witness ==
    /\ pc = "returned"
    /\ \E ix \in Idx("raise") : log[ix].s = "TimeoutError" /\ log[ix].k = 2
    /\ ret.attempts = 2

BadInstructions0 == files0["instructions.json"] \in {Absent, Partial}

\* what C6 states of a run that found instructions.json missing or invalid
NoAttemptMade ==
    /\ pc \in {"idle", "loop", "iteration", "raised"}
    /\ pc = "raised" =>
          exc = IF files0["instructions.json"] = Absent
                THEN "FileNotFoundError" ELSE "JSONDecodeError"
    /\ iteration_count <= 1
    /\ Idx("exec") = {}
    /\ evaluation_history = <<>>
    /\ history = <<>>
    /\ files = files0

\* C6 (amended): with max_attempts >= 1, if instructions.json is missing or
\* not valid JSON when run() starts, run() raises FileNotFoundError,
\* respectively JSONDecodeError, in its first iteration: no retry, no worker
\* execution, no evaluation, and every file of the pod is left as it was.
C6_BadInstructionsFatal ==
    (BadInstructions0 /\ max_attempts >= 1) => NoAttemptMade

\* C6 as stated, for every max_attempts
C6_Original == BadInstructions0 => NoAttemptMade

C6_Witness ==
    /\ pc = "raised"
    /\ exc = "JSONDecodeError"
    /\ files0["instructions.json"] = Partial
    /\ files0["feedback.json"] # Absent
    /\ max_attempts = 3

\* C7: an exception of the worker or the supervisor that is not a timeout
\* reaches the caller unchanged, and run() returns a result only on PASS, on
\* MAX_ATTEMPTS_EXCEEDED or on a timeout.
C7_OthersPropagate ==
    /\ \A ix \in Idx("raise") :
          ~IsTimeout(log[ix].s) => (pc = "raised" /\ exc = log[ix].s)
    /\ pc = "returned" =>
          \/ ret.status = "PASS"
          \/ ret.reason = "MAX_ATTEMPTS_EXCEEDED"
          \/ \E ix \in Idx("raise") : IsTimeout(log[ix].s)

\* C8: loop_status is "running" while run() is in progress, and after run()
\* has returned it is COMPLETE for PASS and FAILED for FAIL, never "idle".
C8_StatusMachine ==
    /\ loop_status \in {"idle", "running", "COMPLETE", "FAILED"}
    /\ pc = "idle" => loop_status = "idle"
    /\ pc \notin {"idle", "returned", "raised"} => loop_status = "running"
    /\ pc = "returned" =>
          loop_status = IF ret.status = "PASS" THEN "COMPLETE" ELSE "FAILED"

\* ---------------------------------------------------------------- C9
\* C9: once the circuit breaker of the instance is open, every further step
\* attempt (of any step, in this or a later invocation) fails the workflow
\* at once with "Circuit breaker opened": the step does not succeed, the
\* loop does not go on to a retry, and no backoff sleep is made.
C9_OpenBreakerStops ==
    [][/\ (is_open /\ opc = "try")
            => /\ opc' = "except"
               /\ success' = FALSE
               /\ steps_executed' = steps_executed
               /\ slept' = slept
       /\ (is_open /\ opc = "except")
            => /\ opc' = "raised"
               /\ oexc' = BreakerOpened
               /\ slept' = slept]_vars

\* --------------------------------------------------------------- C10
\* The step can succeed: it is neither fail_intentionally nor a generic step
\* with should_fail.
Recovers(s) ==
    /\ s.action # "fail_intentionally"
    /\ ~(IsStepAction(s.action) /\ s.should_fail)

\* f: the number of attempts of the step that fail before one succeeds
FailuresBeforeSuccess(s) ==
    IF s.should_fail_count >= 1 THEN s.should_fail_count
    ELSE IF s.should_fail_once THEN 1 ELSE 0

\* the current step has begun its attempts
InStep == opc \in {"while", "raised"}
\* the attempts of the current step that failed
FailedAttempts == IF success THEN attempts - 1 ELSE attempts
\* the failures the breaker had recorded when the current step began
FailuresBeforeStep == failure_count - FailedAttempts

\* the step is executed exactly f+1 times, the last execution succeeds, and
\* the workflow is not failed
RunsToSuccess(f) ==
    /\ opc # "raised"
    /\ attempts <= f + 1
    /\ success <=> attempts = f + 1
    /\ success => ~RetryContinues(attempts, max_retries, success)

\* C10 (amended): a step that fails f times with f < max_retries and then
\* succeeds is executed exactly f+1 times and the workflow goes on to the
\* next step, provided f = 0 or the breaker had recorded fewer than
\* max_retries - f failures (of any step, in any invocation) when the step
\* began; otherwise the step never succeeds and the workflow fails with
\* "Circuit breaker opened" within the step's first f attempts.
C10_PerStepRetries ==
    LET f == FailuresBeforeSuccess(step)
    IN (InStep /\ Recovers(step) /\ f < max_retries)
        => IF f = 0 \/ FailuresBeforeStep + f < max_retries
           THEN RunsToSuccess(f)
           ELSE /\ ~success
                /\ attempts <= f
                /\ opc = "raised" => oexc = BreakerOpened

\* C10 as stated: whatever failed before the step
C10_Original ==
    LET f == FailuresBeforeSuccess(step)
    IN (InStep /\ Recovers(step) /\ f < max_retries) => RunsToSuccess(f)

\* the second step of a workflow succeeds at its attempt f+1 >= 2 after an
\* attempt of the first step had failed
C10_Witness ==
    /\ opc = "while"
    /\ i = 2
    /\ invocations = 1
    /\ Recovers(step)
    /\ FailuresBeforeSuccess(step) >= 1
    /\ FailuresBeforeStep >= 1
    /\ success
    /\ attempts = FailuresBeforeSuccess(step) + 1

\* --------------------------------------------------------------- C11
\* the first step of the first invocation on a fresh instance with
\* max_retries = 3 has should_fail_count = 2 and has just succeeded
C11_Case ==
    /\ opc = "while"
    /\ success
    /\ invocations = 1
    /\ i = 1
    /\ max_retries = 3
    /\ IsStepAction(step.action)
    /\ step.should_fail_count = 2
    /\ ~step.should_fail_once
    /\ ~step.should_fail

\* C11: a step with should_fail_count = 2 under max_retries = 3 is recorded
\* with exactly 3 executions, and the time slept is backoff_base * 1 +
\* backoff_base * 2 and nothing else (slept counts in units of backoff_base).
C11_BackoffTotal ==
    C11_Case => /\ step_execution_counts[ExecKey(step_key)] = 3
                /\ slept = 1 + 2

\* --------------------------------------------------------------- C12
\* the for loop takes a step, and skips it
TakesStep == opc = "for" /\ i' = i + 1
Skips == TakesStep /\ opc' = "for"

\* C12: a checkpointed step is skipped only if that same step has already
\* completed successfully on the instance: a step that has never completed
\* is never skipped, so two distinct checkpointed steps of one workflow both
\* run on the first invocation.  (The "only if" half of the claim.)
C12_SkippedOnlyIfCompleted ==
    [][Skips => (step'.checkpoint /\ StepId(step') \in completed)]_vars

\* --------------------------------------------------------------- C13
\* the step kinds whose exhaustion starts a rollback
MutatingKinds == {"write_file", "create_session", "fail_intentionally"}

\* the current step has failed max_retries times and the error is raised
Exhausted == opc = "raised" /\ attempts >= max_retries

\* _created_dirs lists the harness directory first, then the session
\* directories in the order of their creation
InCreationOrder ==
    \A n \in 1..Len(created_dirs) :
        created_dirs[n] = IF n = 1 THEN HarnessDir ELSE "session" \o ToString(n - 1)

\* C13: when a step of a mutating kind exhausts its retries, at the moment
\* the error is raised every registered file is deleted and every registered
\* directory is removed (the registered directories are walked in reverse
\* creation order, missing paths are passed over).
C13_RollbackComplete ==
    /\ InCreationOrder
    /\ (Exhausted /\ step.action \in MutatingKinds)
        => /\ \A p \in Range(created_files) : disk_files[p] = "absent"
           /\ \A d \in Range(created_dirs) : d \notin disk_dirs

\* a mutating step has exhausted its retries after a file that existed
\* before was registered; nothing of it is left
C13_Witness ==
    /\ Exhausted
    /\ step.action \in MutatingKinds
    /\ max_retries >= 2
    /\ "existing.json" \in Range(created_files)
    /\ disk_files["existing.json"] = "absent"

\* --------------------------------------------------------------- C14
\* C14: when a step of a non-mutating kind exhausts its retries, the
\* exception that reaches the caller is the one its last attempt raised,
\* not another one put in its place.
C14_OriginalReraised ==
    (Exhausted /\ step.action \notin MutatingKinds)
        => oexc = Failure(step, attempts)

\* --------------------------------------------------------------- C15
\* C15: the circuit breaker is monotonic: failure_count never decreases, the
\* breaker is closed while fewer than max_failures failures are recorded, it
\* is open from the max_failures-th record_failure on, and once open it
\* stays open whatever is done with the instance.
C15_BreakerMonotonic ==
    /\ [](failure_count < max_failures => ~is_open)
    /\ []((failure_count >= max_failures /\ failure_count >= 1) => is_open)
    /\ [][failure_count' >= failure_count /\ (is_open => is_open')]_vars

\* failures were recorded after the breaker had opened, and it is open
C15_Witness ==
    /\ max_failures >= 2
    /\ failure_count > max_failures
    /\ is_open

\* --------------------------------------------------------------- C16
\* the writers whose write_atomic has put its document in place
Renamed == {w \in Writers : wpc[w] = "done"}
\* f is as a reader may see the path under write_atomic: missing, or one
\* whole document, the prior one or one put in place
PriorOrNew(f) == f.exists => \E d \in {OldDoc} \cup Renamed : f.data = Doc(d)

\* C16: while calls of write_atomic are in progress or have failed, the path
\* holds, and a reader opening it at any time sees, the whole prior document
\* (or no file, if there was none) or a whole new document, never an empty,
\* truncated or partly written file.
C16_AtomicReaders ==
    method = "write_atomic"
        => /\ PriorOrNew(path_file)
           /\ PriorOrNew(observed.file)
           /\ ~path_file.exists => Renamed = {}

\* a reader has seen the prior document while one call had failed and
\* another had its temporary file written and not yet renamed
C16_Witness ==
    /\ method = "write_atomic"
    /\ observed.read
    /\ observed.file = File(Doc(OldDoc))
    /\ \E w \in Writers : wpc[w] = "failed"
    /\ \E w \in Writers : wpc[w] = "rename"

\* --------------------------------------------------------------- C17
\* every writer has called and its call has ended
AllEnded == \A w \in Writers : wpc[w] \in {"done", "failed"}
\* the calls meet no fault: every document can be serialized and no rename
\* is refused
AllSerializable == \A w \in Writers : serializable[w] /\ ~rename_fails[w]

\* C17: when all the writers (two or more) call write_atomic concurrently
\* with serializable documents, under every interleaving every call
\* succeeds, the path finally holds exactly one of their documents, whole,
\* and no temporary file is left.
C17_ConcurrentAtomic ==
    (method = "write_atomic" /\ AllSerializable /\ AllEnded)
        => /\ \A w \in Writers : wpc[w] = "done"
           /\ \E w \in Writers : path_file = File(Doc(w))
           /\ \A w \in Writers : temp_files[w] = Missing

\* all the concurrent calls of write_atomic have returned
C17_Witness ==
    /\ method = "write_atomic"
    /\ Cardinality(Writers) >= 2
    /\ AllSerializable
    /\ \A w \in Writers : wpc[w] = "done"
    /\ IsComplete(path_file)

\* --------------------------------------------------------------- C18
\* a call of write_with_lock changes the text of the file only while the
\* caller holds the lock
C18_WritesUnderLock ==
    [][\A w \in Writers :
        (method = "write_with_lock" /\ wpc'[w] # wpc[w]
            /\ path_file'.data # path_file.data) => lock_holder = w]_vars

\* when all the concurrent calls of write_with_lock have returned the file
\* holds exactly one whole document
C18_OneDocumentAtEnd ==
    (method = "write_with_lock" /\ AllSerializable /\ AllEnded)
        => \E w \in Writers : path_file = File(Doc(w))

\* C18: write_with_lock holds the lock for the full write: the truncation
\* and every part of the new document reach the file while the caller holds
\* the lock, so no two writers change the file at the same time and the
\* file finally holds exactly one whole document.
C18_LockedWrite == C18_WritesUnderLock /\ []C18_OneDocumentAtEnd

\* --------------------------------------------------------------- C19
\* C19: result.json is superseded atomically: at no time of a run of the
\* loop does it hold an empty or partly written document.
C19_ResultNeverTorn == files["result.json"] # Partial

\* --------------------------------------------------------------- C20
\* one writer, InstructionManager.create, writes the path with
\* write_with_lock; its document has passed validate_instructions
C20_Case ==
    /\ method = "write_with_lock"
    /\ AllSerializable
    /\ \A w \in Writers : w # 1 => wpc[w] = "idle"

\* C20: a reader that opens instructions.json without a lock while
\* InstructionManager.create writes it sees no file, the whole previous
\* document or the whole new one, never an empty or truncated file.
C20_ReaderNeverHalfWritten ==
    C20_Case => (observed.file.exists => IsComplete(observed.file))

\* --------------------------------------------------------------- C21
\* the call of writer w is one that fails, in serialization or in the rename
Faulty(w) == ~serializable[w] \/ rename_fails[w]

\* C21: a call of write_atomic that fails during serialization or rename
\* never changes the path (it keeps its previous whole content, or stays
\* absent), and when the error has been raised its temporary file is gone.
C21_FailedAtomicLeavesPath ==
    /\ [][\A w \in Writers :
            (method = "write_atomic" /\ wpc'[w] # wpc[w] /\ Faulty(w)')
                => path_file' = path_file]_vars
    /\ [](\A w \in Writers :
            (method = "write_atomic" /\ wpc[w] = "failed")
                => /\ Faulty(w)
                   /\ temp_files[w] = Missing
                   /\ PriorOrNew(path_file))

\* one call has failed in serialization and one in the rename; the path
\* still holds the prior document and no temporary file is left
C21_Witness ==
    /\ method = "write_atomic"
    /\ \E w \in Writers : wpc[w] = "failed" /\ ~serializable[w]
    /\ \E w \in Writers : wpc[w] = "failed" /\ serializable[w] /\ rename_fails[w]
    /\ path_file = File(Doc(OldDoc))
    /\ \A w \in Writers : temp_files[w] = Missing

\* --------------------------------------------------------------- C22
\* C22: write_with_lock releases its lock on every exit path: a writer past
\* its finally block does not hold the lock, whether its dump succeeded or
\* raised, and every call that waits for the lock eventually gets it and
\* ends.
C22_LockReleased ==
    /\ [](\A w \in Writers :
            wpc[w] \in {"close", "done", "failed"} => lock_holder # w)
    /\ \A w \in Writers :
          (method = "write_with_lock" /\ wpc[w] = "lock")
              ~> (wpc[w] \in {"done", "failed"})

\* a call whose dump raised has ended, the call of another writer has
\* returned as well, and the lock is free
C22_Witness ==
    /\ method = "write_with_lock"
    /\ \E w \in Writers : wpc[w] = "failed" /\ ~serializable[w]
    /\ \E w \in Writers : wpc[w] = "done"
    /\ lock_holder = NoWriter

\* --------------------------------------------------------------- C23
\* the feedback schemas: PASS with result and attempts, FAIL with attempt
\* and at least one gap
SchemaValid(doc) ==
    /\ IsJson(doc)
    /\ "status" \in DOMAIN doc
    /\ \/ /\ doc.status = "PASS"
          /\ {"result", "attempts"} \subseteq DOMAIN doc
          /\ IsInteger(doc.attempts)
       \/ /\ doc.status = "FAIL"
          /\ {"gaps", "attempt"} \subseteq DOMAIN doc
          /\ IsInteger(doc.attempt)
          /\ IsStringArray(doc.gaps)
          /\ Len(doc.gaps) >= 1

\* C23: after any sequence of write_pass / write_fail calls feedback.json is
\* absent or a whole schema-valid feedback document (a FAIL document has at
\* least one gap); a call with an invalid document raises the validation
\* error and leaves feedback.json as it was, and a call that returns has
\* written its document.
C23_FeedbackValid ==
    /\ [](feedback_json = Absent \/ SchemaValid(feedback_json))
    /\ [][fm_calls' # fm_calls =>
            /\ ~SchemaValid(fm_data') =>
                  (fm_exc' = "ValueError" /\ feedback_json' = feedback_json)
            /\ fm_exc' # "none" => feedback_json' = feedback_json
            /\ fm_exc' = "none" => feedback_json' = fm_data']_vars

\* write_fail with gaps=[] has raised the validation error after an earlier
\* call had written a document, which is still there
C23_Witness ==
    /\ fm_calls >= 2
    /\ Get(fm_data, "status", "") = "FAIL"
    /\ IsStringArray(fm_data.gaps) /\ Len(fm_data.gaps) = 0
    /\ IsInteger(fm_data.attempt)
    /\ fm_exc = "ValueError"
    /\ SchemaValid(feedback_json)
    /\ feedback_json.status = "FAIL"

\* --------------------------------------------------------------- C24
\* C24: for every instruction text and every value stored in result.json,
\* the comparison ends without an exception, and a FAIL verdict comes with
\* at least one gap, none of them empty, so that the FAIL feedback passes
\* validation.
C24_FailHasGaps ==
    cmp_out # NoOut =>
        /\ cmp_out.exc = "none"
        /\ cmp_out.status = "FAIL" =>
              /\ Len(cmp_out.gaps) >= 1
              /\ \A n \in 1..Len(cmp_out.gaps) : cmp_out.gaps[n] # ""
              /\ validate_feedback(FailDoc(cmp_out.gaps, 1))

\* --------------------------------------------------------------- C25
\* the results of the declared type, Optional[str]
OptionalStr(result) == result \in StringResults \cup {NoneResult}

C26_NoResultFirst ==
    (cmp_out # NoOut /\ cmp_result \in {NoneResult, "", "   "}) =>
        /\ cmp_out.exc = "none"
        /\ cmp_out.status = "FAIL"
        /\ cmp_out.gaps = <<"No result provided">>

\* a whitespace result has been compared with instructions that mention JSON
C26_Witness ==
    /\ cmp_instructions = JsonText
    /\ cmp_result = "   "
    /\ cmp_out.gaps = <<"No result provided">>

\* --------------------------------------------------------------- C27
\* C27: instructions.json is never written during a run of the loop: at
\* every moment, and when run() has returned or raised, it holds what it
\* held when run() was called, whatever its output_path.
C27_InstructionsUntouched ==
    files["instructions.json"] = files0["instructions.json"]

\* --------------------------------------------------------------- C28
\* C28: the evaluation history only grows at its end: an evaluate call that
\* returns appends one entry, PASS or FAIL, and leaves the earlier entries
\* as they were; an evaluate call that raises, and every other step, leaves
\* the history unchanged.
C28_HistoryAppendOnly ==
    [][IF pc = "evaluate" /\ pc' # "raised"
       THEN /\ Len(evaluation_history') = Len(evaluation_history) + 1
            /\ SubSeq(evaluation_history', 1, Len(evaluation_history)) = evaluation_history
            /\ evaluation_history'[Len(evaluation_history')].status \in {"PASS", "FAIL"}
       ELSE evaluation_history' = evaluation_history]_vars

\* two evaluations were recorded and the third one raised
C28_Witness ==
    /\ Len(evaluation_history) = 2
    /\ pc = "raised"
    /\ exc = "AttributeError"
    /\ log[Len(log)] = Ev("raise", 3, "AttributeError")

\* --------------------------------------------------------------- C29
\* C29: every create_pod_dir and create_worker_dir call succeeds, and the
\* paths the calls return are all different, also for two calls with the
\* same name at the same clock reading.
C29_DirsUnique ==
    /\ pr_exc = "none"
    /\ \A m, n \in 1..Len(returned) : m # n => returned[m] # returned[n]

\* --------------------------------------------------------------- C30
\* feedback.json holds a FAIL document whose attempt is below the limit
RetryDue ==
    /\ Get(work_feedback, "status", "") = "FAIL"
    /\ work_feedback.attempt < worker_max_retries

\* the step is a run() on an instructions.json that holds both fields of
\* the instructions schema
RunsOnValidInstructions ==
    /\ runs' = runs + 1
    /\ {"instructions", "output_path"} \subseteq DOMAIN work_instructions

\* what the claim says of the runs that do not execute
RunLeavesResult ==
    /\ llm_calls' = llm_calls
    /\ result_writes' = result_writes
    /\ work_result' = work_result
    /\ Get(work_feedback, "status", "") = "PASS" => execution_status' = "COMPLETE"
    /\ Get(work_feedback, "status", "") = "FAIL" =>
          execution_status' = "MAX_RETRIES_EXCEEDED"

\* the step is a run() that called the LLM once and wrote the result once
Executed ==
    /\ llm_calls' = llm_calls + 1
    /\ result_writes' = result_writes + 1
    /\ work_result' # Absent

\* C30 as stated: with a valid instructions.json and a feedback.json that
\* is missing or holds a JSON object, one run() calls the LLM and writes the
\* result if there is no feedback file or the feedback is FAIL with
\* attempt < max_retries, and otherwise does neither; with PASS feedback it
\* sets the status COMPLETE, with FAIL feedback whose attempt >= max_retries
\* the status MAX_RETRIES_EXCEEDED.
C30_Original ==
    [][(RunsOnValidInstructions /\ work_feedback # Partial)
       => /\ work_exc' = "none"
          /\ IF work_feedback = Absent \/ RetryDue
             THEN Executed
             ELSE RunLeavesResult]_vars

\* C30, amended: with a valid instructions.json and a feedback.json that is
\* missing or holds a JSON object, one run() calls the LLM and writes the
\* result if there is no feedback file, the feedback file holds the empty
\* object, or the feedback is FAIL with attempt < max_retries, and
\* otherwise does neither; with PASS feedback it sets the status COMPLETE,
\* with FAIL feedback whose attempt >= max_retries the status
\* MAX_RETRIES_EXCEEDED.
C30_RunExecutesIffDue ==
    [][(RunsOnValidInstructions /\ work_feedback # Partial)
       => /\ work_exc' = "none"
          /\ IF work_feedback \in {Absent, EmptyDoc} \/ RetryDue
             THEN Executed
             ELSE RunLeavesResult]_vars

\* a first run, a retry on FAIL feedback below the limit, and a run that
\* found the limit reached and left the result of the retry in place
C30_Witness ==
    /\ runs = 3
    /\ llm_calls = 2
    /\ result_writes = 2
    /\ execution_status = "MAX_RETRIES_EXCEEDED"
    /\ work_feedback.status = "FAIL"
    /\ work_feedback.attempt = worker_max_retries
    /\ Len(execution_history) = 2
    /\ work_result = execution_history[2].result

\* --------------------------------------------------------------- C31
\* C31: for every order of send and receive calls, what receive(p) has
\* returned so far is the beginning of what was sent to p, in send order and
\* addressed to p; a receive with a message pending returns the oldest
\* message not yet returned, and a receive with none pending returns None
\* and changes nothing.
C31_FifoExactlyOnce ==
    /\ [](\A p \in Pods :
            /\ Len(received[p]) <= Len(sent[p])
            /\ received[p] = SubSeq(sent[p], 1, Len(received[p]))
            /\ \A n \in 1..Len(received[p]) : received[p][n].to = p)
    /\ [][(mq_calls' # mq_calls /\ sent' = sent) =>
            \/ /\ mq_ret' = NoMessage
               /\ received' = received
               /\ queues' = queues
               /\ \E p \in Pods : received[p] = sent[p]
            \/ \E p \in Pods :
                  /\ Len(received[p]) < Len(sent[p])
                  /\ mq_ret' = sent[p][Len(received[p]) + 1]
                  /\ received' = [received EXCEPT ![p] = Append(@, mq_ret')]]_vars

\* pod-b has received, in order, the two messages sent to it, sent around a
\* message for pod-a, and a further receive gave None
C31_Witness ==
    /\ Len(sent["pod-b"]) = 2
    /\ sent["pod-b"][1].payload # sent["pod-b"][2].payload
    /\ Len(sent["pod-a"]) = 1
    /\ received["pod-b"] = sent["pod-b"]
    /\ received["pod-a"] = <<>>
    /\ mq_ret = NoMessage
    /\ mq_calls = 6

\* --------------------------------------------------------------- C32
\* the step is the call mark_failed(x)
MarksFailed(x) ==
    /\ dg_calls' # dg_calls
    /\ dg_last' = [op |-> "mark_failed", name |-> x]

RECURSIVE Ancestors(_, _)
Ancestors(seen, w) ==
    IF w \in seen \/ w \notin DOMAIN dependencies THEN {}
    ELSE dependencies[w]
            \cup UNION {Ancestors(seen \cup {w}, d) : d \in dependencies[w]}

\* C40: after any sequence of add_workflow and mark_failed calls no workflow
\* is "pending" while a workflow it depends on, directly or through other
\* workflows, is "failed" or "cancelled", and a workflow that was marked
\* failed is "failed", not "cancelled".
C40_NoPendingOnFailure ==
    /\ \A w \in DOMAIN statuses :
          statuses[w] = "pending" =>
              \A d \in Ancestors({}, w) :
                  d \in DOMAIN statuses => statuses[d] \notin {"failed", "cancelled"}
    /\ \A w \in marked : statuses[w] = "failed"

\* --------------------------------------------------------------- C33
LlmEnded == llm_pc \in {"returned", "raised"}

Min(a, b) == IF a < b THEN a ELSE b

\* C33: for retries >= 1, call_with_retry calls the API again only after a
\* rate limit: when it ends after f rate-limited calls it has made
\* min(f + 1, retries) calls, it has slept 2^(k-1) seconds after the k-th
\* rate-limited call whenever another call followed, it raises the
\* rate-limit error exactly when the retries-th call was rate-limited and
\* any other error with the call that met it, and it always ends.
C33_RetryOnRateLimitOnly ==
    /\ [](retries >= 1 =>
            /\ api_calls <= retries
            /\ \A k \in 1..Len(sleeps) : sleeps[k] = 2 ^ (k - 1)
            /\ Len(sleeps) <= rate_limited
            /\ LlmEnded =>
                  /\ api_calls = Min(rate_limited + 1, retries)
                  /\ Len(sleeps) = api_calls - 1
                  /\ (llm_pc = "raised" /\ llm_exc = "RateLimitError")
                        <=> rate_limited = retries
                  /\ (llm_pc = "raised" /\ llm_exc # "RateLimitError")
                        => api_calls = rate_limited + 1)
    /\ (retries >= 1) ~> LlmEnded

\* with retries=3 two rate-limited calls were followed by a third call that
\* returned, after sleeps of 1 and 2 seconds
C33_Witness ==
    /\ retries = 3
    /\ llm_pc = "returned"
    /\ llm_ret = "Success!"
    /\ api_calls = 3
    /\ rate_limited = 2
    /\ sleeps = <<1, 2>>

\* --------------------------------------------------------------- C34
\* execute_with_retry has raised on a step of a mutating kind
RaisedOnMutating == opc = "raised" /\ step.action \in MutatingKinds

\* C34: whenever execute_with_retry raises while the failing step is of a
\* mutating kind, rollback has run before the raise, also when the raise is
\* the circuit breaker opening on an attempt before the step's last one: no
\* file and no directory registered by earlier steps is left.
C34_RollbackBeforeEveryRaise ==
    RaisedOnMutating
        => /\ \A p \in Range(created_files) : disk_files[p] = "absent"
           /\ \A d \in Range(created_dirs) : d \notin disk_dirs

\* --------------------------------------------------------------- C35
\* the step the for loop has just left was skipped on its checkpoint or
\* ran to success in one of its attempts
StepPassed ==
    \/ step.checkpoint /\ step_key \in checkpoint_state
    \/ success /\ attempts >= 1

\* C35: for every max_retries, zero included, the for loop leaves a step
\* behind, and execute_with_retry returns its 'completed' result, only when
\* the step executed successfully in this invocation or was skipped because
\* of its checkpoint; a step that was never attempted is not passed over.
C35_CompletedMeansEveryStepRan ==
    (opc \in {"for", "returned"} /\ i > 0) => StepPassed

\* --------------------------------------------------------------- C36
\* this step of the orchestrator ends in the raise that follows a rollback
RollbackRan == opc # "raised" /\ Exhausted' /\ step.action \in MutatingKinds

\* C36: rollback removes only what the workflow created: existing.json,
\* which was there before the orchestrator was made and which a write_file
\* step may have overwritten, is there with its original content after a
\* rollback, and so are the harness directory and the session directory of
\* another run in it.
C36_RollbackKeepsForeign ==
    [][RollbackRan =>
        /\ disk_files["existing.json"] # "absent"
            => disk_files'["existing.json"] = "original"
        /\ ForeignSession \in disk_dirs
            => {HarnessDir, ForeignSession} \subseteq disk_dirs']_vars

\* --------------------------------------------------------------- C37
\* the for loop has passed a checkpointed write_file step whose file this
\* orchestrator wrote and registered at some time
CheckpointedWritePassed ==
    /\ opc \in {"for", "returned"}
    /\ i > 0
    /\ max_retries >= 1
    /\ step.action = "write_file"
    /\ step.checkpoint
    /\ step.path \in Range(created_files)

\* C37: the checkpoint state stays consistent with the filesystem across a
\* rollback: a checkpointed step whose file a rollback removed is executed
\* again by a later invocation and not skipped, so that the file of every
\* checkpointed write_file step the loop has passed is on disk.
C37_CheckpointMatchesDisk ==
    CheckpointedWritePassed => disk_files[step.path] # "absent"

\* --------------------------------------------------------------- C38
\* the attempt number a feedback document carries: attempts of a PASS
\* document, attempt of a FAIL document
AttemptNumber(doc) ==
    IF Get(doc, "status", "") = "PASS" THEN Get(doc, "attempts", 0)
    ELSE Get(doc, "attempt", 0)

\* this step is a supervisor evaluation that wrote its feedback
Evaluated == Len(evaluation_history') = Len(evaluation_history) + 1

\* C38: the feedback.json the k-th evaluation of a run writes carries the
\* attempt number k, in attempts for PASS and in attempt for FAIL, and k is
\* the attempts value of the loop at that point.
C38_FeedbackNumberedAsLoop ==
    [][Evaluated =>
        /\ AttemptNumber(files'["feedback.json"]) = Len(evaluation_history')
        /\ AttemptNumber(files'["feedback.json"]) = current_attempt']_vars

\* --------------------------------------------------------------- C39
\* run() has returned PASS or MAX_ATTEMPTS_EXCEEDED
LoopEnded ==
    /\ pc = "returned"
    /\ ret.status = "PASS" \/ ret.reason = "MAX_ATTEMPTS_EXCEEDED"

\* how many events of kind e the run has logged
Count(e) == Cardinality({n \in 1..Len(log) : log[n].e = e})

\* the history numbers its entries 1..n and only the last may be PASS
HistoryNumbered ==
    \A n \in 1..Len(history) :
        /\ history[n].attempt = n
        /\ n < Len(history) => history[n].status = "FAIL"

\* C39: when run() returns PASS or MAX_ATTEMPTS_EXCEEDED with attempts n,
\* the history has n entries numbered 1..n of which only the last may be
\* PASS, iteration_count is n, the supervisor has evaluated n times, and the
\* worker has produced and written a result n times, once per attempt.
C39_CountsAgree ==
    LoopEnded
        => /\ Len(history) = ret.attempts
           /\ HistoryNumbered
           /\ iteration_count = ret.attempts
           /\ Len(evaluation_history) = ret.attempts
           /\ Count("feedback") = ret.attempts
           /\ Count("written") = ret.attempts
           /\ \A n \in 1..ret.attempts :
                Cardinality({m \in 1..Len(log) :
                    log[m].e = "written" /\ log[m].k = n}) = 1

\* run() has returned PASS on a later attempt, one of whose retries fell back
\* from execute_with_feedback to execute: the worker was called more often
\* than there were attempts, and wrote once per attempt
C39_Witness ==
    /\ LoopEnded
    /\ ret.status = "PASS"
    /\ ret.attempts >= 2
    /\ Count("exec") > ret.attempts
    /\ Count("written") = ret.attempts
    /\ Len(history) = ret.attempts
====
